---------------------------- MODULE Spec2Model ----------------------------
(***************************************************************************)
(* Model of the transaction walker, reconciliation engine and              *)
(* post-processor of solana-streamer's event parser                        *)
(* (src/streaming/event_parser/core/traits.rs).                            *)
(*                                                                         *)
(* Public keys are small naturals (0 is Pubkey::default()), bytes are      *)
(* naturals, strings are sequences of one-character strings.  Account and  *)
(* instruction positions are 0-based as in the source; Seq access adds 1.  *)
(***************************************************************************)
EXTENDS Integers, Sequences, FiniteSets, TLC

(***************************************************************************)
(* Bounds of the model.                                                    *)
(***************************************************************************)
\* top-level instructions, inner instructions and log lines of one
\* transaction, taken together
MaxItems == 4
\* events in a list handed directly to process_events
MaxEvents == 3

(***************************************************************************)
(* Public keys.                                                            *)
(***************************************************************************)
\* Pubkey::default(), the all-zero key
PubkeyDefault == 0
\* the decoder's program id
PUMPFUN_PROGRAM_ID == 1
\* some mint, two wallets, a token program, all different from the above
MintKey == PUMPFUN_PROGRAM_ID + 1
WalletA == MintKey + 1
WalletB == WalletA + 1
TokenProgram == WalletB + 1

(***************************************************************************)
(* Strings: format!("{}", n), contains, split, parse::<u32>.               *)
(***************************************************************************)
DigitChars == <<"0", "1", "2", "3", "4", "5", "6", "7", "8", "9">>

RECURSIVE FormatNat(_)
\* format!("{}", n) for an unsigned n: its decimal digits, no leading zero
FormatNat(n) ==
    IF n < 10 THEN <<DigitChars[n + 1]>>
    ELSE FormatNat(n \div 10) \o <<DigitChars[(n % 10) + 1]>>

\* format!("{}", index) of a top-level position
TopIndex(t) == FormatNat(t)

\* the position within the group alone, without the group's index
InnerIndexWithoutGroup(t, i) == FormatNat(i)

\* format!("{}.{}", inner_instruction.index, index)
InnerIndex(t, i) == FormatNat(t) \o <<".">> \o FormatNat(i)

\* "log".to_string()
LogIndex == <<"l", "o", "g">>

\* str::contains(".")
ContainsDot(s) == \E k \in 1..Len(s) : s[k] = "."

\* position of the first "." of s at or after position from, Len(s)+1 if none
RECURSIVE DotFrom(_, _)
DotFrom(s, from) ==
    IF from > Len(s) THEN Len(s) + 1
    ELSE IF s[from] = "." THEN from
    ELSE DotFrom(s, from + 1)

\* s.split(".").nth(0): always present
SplitNth0(s) == SubSeq(s, 1, DotFrom(s, 1) - 1)

\* s.split(".").nth(1) for an s that contains a "." (the source unwraps it)
SplitNth1(s) ==
    LET d == DotFrom(s, 1)
    IN  SubSeq(s, d + 1, DotFrom(s, d + 1) - 1)

DigitValue(c) == CHOOSE d \in 0..9 : DigitChars[d + 1] = c

IsDigit(c) == \E d \in 0..9 : DigitChars[d + 1] = c

RECURSIVE DecimalValue(_)
DecimalValue(s) ==
    IF Len(s) = 0 THEN 0
    ELSE 10 * DecimalValue(SubSeq(s, 1, Len(s) - 1)) + DigitValue(s[Len(s)])

\* s.parse::<u32>().unwrap_or(0): empty or non-digit text gives 0.  Text of up
\* to 9 digits is below 2^32 and parses to its value; longer text (which no
\* instruction position produces, and whose value is past TLC's integers) is
\* given 0 as well
ParseU32OrZero(s) ==
    IF Len(s) = 0 \/ Len(s) > 9 \/ \E k \in 1..Len(s) : ~IsDigit(s[k]) THEN 0
    ELSE DecimalValue(s)

(***************************************************************************)
(* Bytes and hex: format!("0x{}", hex::encode(bytes)), str::starts_with.   *)
(***************************************************************************)
HexChars == <<"0", "1", "2", "3", "4", "5", "6", "7", "8", "9",
              "a", "b", "c", "d", "e", "f">>

RECURSIVE HexEncode(_)
\* hex::encode: two lower-case digits per byte
HexEncode(bytes) ==
    IF Len(bytes) = 0 THEN <<>>
    ELSE <<HexChars[(bytes[1] \div 16) + 1], HexChars[(bytes[1] % 16) + 1]>>
         \o HexEncode(Tail(bytes))

\* format!("0x{}", hex::encode(bytes))
HexStr(bytes) == <<"0", "x">> \o HexEncode(bytes)

\* s.starts_with(p), on strings or on byte slices
StartsWith(s, p) == Len(s) >= Len(p) /\ SubSeq(s, 1, Len(p)) = p

\* s.strip_prefix("0x").unwrap_or(s)
StripHexPrefix(s) == IF StartsWith(s, <<"0", "x">>) THEN SubSeq(s, 3, Len(s)) ELSE s

\* &s[from..] with a 0-based from; the source's slice panics past the end
SliceFrom(s, from) == SubSeq(s, from + 1, Len(s))

(***************************************************************************)
(* Discriminators and configurations (PumpFunEventParser::new).            *)
(***************************************************************************)
\* the 8 bytes every inner-instruction (event) discriminator starts with
EventTag == <<228, 69, 165, 46, 81, 203, 154, 29>>

\* discriminators::CREATE_TOKEN_EVENT and TRADE_EVENT as bytes (16 each)
CREATE_TOKEN_EVENT_BYTES == EventTag \o <<27, 114, 169, 77, 222, 235, 99, 118>>
TRADE_EVENT_BYTES == EventTag \o <<189, 219, 127, 211, 78, 230, 97, 238>>

\* the &'static str form the registry is keyed by: "0x" and 32 hex digits
CREATE_TOKEN_EVENT == HexStr(CREATE_TOKEN_EVENT_BYTES)
TRADE_EVENT == HexStr(TRADE_EVENT_BYTES)

\* discriminators::CREATE_TOKEN_IX, BUY_IX, SELL_IX (8 bytes each)
CREATE_TOKEN_IX == <<24, 30, 200, 40, 5, 28, 7, 119>>
BUY_IX == <<102, 6, 61, 18, 1, 218, 235, 234>>
SELL_IX == <<51, 230, 133, 164, 1, 127, 131, 173>>

\* the configs vector of PumpFunEventParser::new, in its order; "parser" names
\* the pair of parser functions the configuration carries
Configs ==
    << [inner_instruction_discriminator |-> CREATE_TOKEN_EVENT,
        instruction_discriminator |-> CREATE_TOKEN_IX,
        event_type |-> "PumpFunCreateToken", parser |-> "create"],
       [inner_instruction_discriminator |-> TRADE_EVENT,
        instruction_discriminator |-> BUY_IX,
        event_type |-> "PumpFunBuy", parser |-> "buy"],
       [inner_instruction_discriminator |-> TRADE_EVENT,
        instruction_discriminator |-> SELL_IX,
        event_type |-> "PumpFunSell", parser |-> "sell"] >>

(***************************************************************************)
(* GenericEventParser::new: the two registries.  A HashMap is a function   *)
(* on its key set; its iteration order is not specified and is drawn with  *)
(* the decoder (hash_seed).                                                *)
(***************************************************************************)
\* insert(key, vec![config]) in place of entry(key).or_insert(vec![]).push(config):
\* the vector under a key holds the last configuration with that key
FiledUnderOverwriting(configs, field, key) ==
    LET filed == SelectSeq(configs, LAMBDA c : c[field] = key)
    IN  IF Len(filed) = 0 THEN <<>> ELSE <<filed[Len(filed)]>>

\* entry(key).or_insert(vec![]).push(config), over the configs in order: the
\* vector under a key holds every configuration with that key, in order
FiledUnder(configs, field, key) == SelectSeq(configs, LAMBDA c : c[field] = key)

RegistryOf(configs, field) ==
    [key \in {configs[k][field] : k \in 1..Len(configs)} |->
        FiledUnder(configs, field, key)]

\* `configs` keeps the vector the decoder was built from, for the order of keys
GenericEventParserNew(program_id, protocol_type, configs) ==
    [program_id |-> program_id,
     protocol_type |-> protocol_type,
     configs |-> configs,
     inner_instruction_configs |-> RegistryOf(configs, "inner_instruction_discriminator"),
     instruction_configs |-> RegistryOf(configs, "instruction_discriminator")]

\* PumpFunEventParser::new's decoder
Parser == GenericEventParserNew(PUMPFUN_PROGRAM_ID, "PumpFun", Configs)

\* configurations of a decoder built directly with GenericEventParser::new for
\* the same program: the inner-instruction discriminators are the 8-byte log
\* forms of the events, and the second instruction discriminator is the first
\* one followed by a zero byte
GenericConfigs ==
    << [inner_instruction_discriminator |-> HexStr(SliceFrom(TRADE_EVENT_BYTES, 8)),
        instruction_discriminator |-> BUY_IX,
        event_type |-> "PumpFunBuy", parser |-> "buy"],
       [inner_instruction_discriminator |-> HexStr(SliceFrom(CREATE_TOKEN_EVENT_BYTES, 8)),
        instruction_discriminator |-> BUY_IX \o <<0>>,
        event_type |-> "PumpFunSell", parser |-> "sell"] >>

GenericParser == GenericEventParserNew(PUMPFUN_PROGRAM_ID, "PumpFun", GenericConfigs)

\* configurations of a decoder built directly with GenericEventParser::new in
\* which two configurations share both discriminators, and a third has an
\* inner-instruction discriminator whose two halves are the same 8 bytes
CollidingConfigs ==
    << [inner_instruction_discriminator |-> TRADE_EVENT,
        instruction_discriminator |-> BUY_IX,
        event_type |-> "PumpFunBuy", parser |-> "buy"],
       [inner_instruction_discriminator |-> TRADE_EVENT,
        instruction_discriminator |-> BUY_IX,
        event_type |-> "PumpFunSell", parser |-> "sell"],
       [inner_instruction_discriminator |-> HexStr(EventTag \o EventTag),
        instruction_discriminator |-> CREATE_TOKEN_IX,
        event_type |-> "PumpFunCreateToken", parser |-> "create"] >>

CollidingParser == GenericEventParserNew(PUMPFUN_PROGRAM_ID, "PumpFun", CollidingConfigs)

\* the decoders a call runs on, by name
Decoders == {"PumpFunEventParser", "GenericEventParser"}

DecoderOf(name) ==
    IF name = "PumpFunEventParser" THEN Parser
    ELSE IF name = "GenericEventParser" THEN GenericParser
    ELSE CollidingParser

RECURSIVE FirstKeys(_, _)
\* the distinct keys of the configurations, by first occurrence
FirstKeys(configs, field) ==
    IF Len(configs) = 0 THEN <<>>
    ELSE LET rest == FirstKeys(SubSeq(configs, 1, Len(configs) - 1), field)
             key == configs[Len(configs)][field]
         IN  IF \E k \in 1..Len(rest) : rest[k] = key THEN rest ELSE Append(rest, key)

Reverse(s) == [k \in 1..Len(s) |-> s[Len(s) + 1 - k]]

\* the order in which `for (disc, configs) in &map` visits the keys
IterationOrder(parser, field, seed) ==
    IF seed = 0 THEN FirstKeys(parser.configs, field)
    ELSE Reverse(FirstKeys(parser.configs, field))

\* a should_handle that accepts every program
ShouldHandleAnyProgram(parser, program_id) == TRUE

\* GenericEventParser::should_handle
ShouldHandle(parser, program_id) == program_id = parser.program_id

\* utils::discriminator_matches(hex_str, disc)
DiscriminatorMatches(hex_str, disc) == StartsWith(hex_str, disc)

\* utils::validate_account_indices(indices, len)
ValidateAccountIndices(indices, len) == \A k \in 1..Len(indices) : indices[k] < len

(***************************************************************************)
(* Events.  One record shape for every concrete event type; `struct` is    *)
(* the type a downcast recovers.  src, top and child record where the      *)
(* event was created (B: top-level instruction, C: inner instruction via   *)
(* the instruction parser, I: inner instruction via the inner-instruction  *)
(* parser, D: log line); no operation of the program reads them.  program  *)
(* is the key the instruction's program id index resolves to (-1 when it   *)
(* resolves to none); of a Pass D event, key is the position of the        *)
(* discriminator key among the decoder's keys and line the first 16 bytes  *)
(* of the log line's data.                                                 *)
(***************************************************************************)
Origin(src, top, child, program) ==
    [src |-> src, top |-> top, child |-> child, program |-> program,
     key |-> 0, line |-> <<>>]

NoOrigin == Origin("none", 0, 0, -1)

\* the key at a program id index of an account vector, -1 past its end
ResolvedProgram(program_id_index, accounts) ==
    IF program_id_index < Len(accounts) THEN accounts[program_id_index + 1] ELSE -1

BlankEvent ==
    [struct |-> "none", event_type |-> "none", id |-> <<>>, index |-> <<>>,
     origin |-> NoOrigin,
     name |-> <<>>, symbol |-> <<>>, mint |-> PubkeyDefault, user |-> PubkeyDefault,
     payer |-> PubkeyDefault, creator |-> PubkeyDefault,
     is_buy |-> FALSE, amount |-> 0, max_sol_cost |-> 0, virtual_sol_reserves |-> 0,
     transfer_datas |-> <<>>, transfer_accounts |-> 0,
     is_dev_create_token_trade |-> FALSE, is_bot |-> FALSE,
     program_handle_time_consuming_ms |-> 0]

\* EventMetadata::new(.., event_type, program_id, index, ..)
EventMetadata(event_type, index, origin) ==
    [event_type |-> event_type, index |-> index, origin |-> origin]

\* the ids the parsers set: "{sig}-{mint}-{user}-{is_buy}" for a trade,
\* "{sig}-{name}-{symbol}-{mint}" for a token create (one signature here)
TradeId(mint, user, is_buy) == <<"trade", mint, user, is_buy>>
CreateId(name, symbol, mint) == <<"create", name, symbol, mint>>

RECURSIVE FromLeBytes(_)
\* u32::from_le_bytes / u64::from_le_bytes
FromLeBytes(bytes) ==
    IF Len(bytes) = 0 THEN 0
    ELSE bytes[1] + 256 * FromLeBytes(Tail(bytes))

(***************************************************************************)
(* Encoded text.  A base58 or base64 string is either the encoding of a    *)
(* byte vector or text that does not decode.  A Result is [ok, bytes].     *)
(***************************************************************************)
Encoded(bytes) == [valid |-> TRUE, bytes |-> bytes]
Undecodable == [valid |-> FALSE, bytes |-> <<>>]

\* bs58::decode(text).into_vec()
Bs58Decode(text) == [ok |-> text.valid, bytes |-> text.bytes]

\* utils::decode_base64(text)
DecodeBase64(text) == [ok |-> text.valid, bytes |-> text.bytes]

\* utils::extract_program_data(log): the text after "Program data: ", if the
\* line starts with it; None is <<>>, Some(text) is <<text>>
ExtractProgramData(log) ==
    IF log.prefix = "Program data: " THEN <<log.rest>> ELSE <<>>

\* a result of a call that may panic: [panic, events]
Returned(events) == [panic |-> FALSE, events |-> events]
Panicked == [panic |-> TRUE, events |-> <<>>]

\* two calls one after the other: the events of both, or the panic of either
Then(first, rest) ==
    IF first.panic \/ rest.panic THEN Panicked
    ELSE Returned(first.events \o rest.events)

\* a length-prefixed string at offset: its bytes and the offset after it; the
\* slices data[offset..offset + 4] and data[offset..offset + len] panic when
\* they run past the end of data (ok is FALSE)
ReadString(data, offset) ==
    IF offset + 4 > Len(data) THEN [ok |-> FALSE, text |-> <<>>, next |-> offset]
    ELSE LET len == FromLeBytes(SubSeq(data, offset + 1, offset + 4))
         IN  IF offset + 4 + len > Len(data)
             THEN [ok |-> FALSE, text |-> <<>>, next |-> offset + 4]
             ELSE [ok |-> TRUE,
                   text |-> SubSeq(data, offset + 5, offset + 4 + len),
                   next |-> offset + 4 + len]

\* PumpFunEventParser::parse_create_token_instruction.  None is <<>>,
\* Some(e) is <<e>>.  A key in the data takes one cell where the source reads
\* 32 bytes.
ParseCreateTokenInstruction(data, accounts, metadata) ==
    IF Len(data) < 16 \/ Len(accounts) < 11 THEN Returned(<<>>)
    ELSE LET name == ReadString(data, 0)
             symbol == ReadString(data, name.next)
             uri == ReadString(data, symbol.next)
             creator == IF uri.next + 1 <= Len(data) THEN data[uri.next + 1]
                        ELSE PubkeyDefault
         IN  IF ~name.ok \/ ~symbol.ok \/ ~uri.ok THEN Panicked
             ELSE Returned(<< [BlankEvent EXCEPT
                   !.struct = "PumpFunCreateTokenEvent",
                   !.event_type = metadata.event_type, !.index = metadata.index,
                   !.origin = metadata.origin,
                   !.id = CreateId(name.text, symbol.text, accounts[1]),
                   !.name = name.text, !.symbol = symbol.text,
                   !.creator = creator,
                   !.mint = accounts[1], !.user = accounts[8]] >>)

\* the inner-instruction parsers, (data, metadata) -> Option<event>: a borsh
\* decode of the event's layout, here eight cells (name, symbol, mint, user,
\* creator of a create; mint, user, is_buy, virtual_sol_reserves of a trade;
\* other fields after them), which fails on any other length
InnerInstructionParser(parser, data, metadata) ==
    IF Len(data) # 8 THEN <<>>
    ELSE IF parser = "create"
    THEN << [BlankEvent EXCEPT
               !.struct = "PumpFunCreateTokenEvent",
               !.event_type = metadata.event_type, !.index = metadata.index,
               !.origin = metadata.origin,
               !.id = CreateId(<<data[1]>>, <<data[2]>>, data[3]),
               !.name = <<data[1]>>, !.symbol = <<data[2]>>, !.mint = data[3],
               !.user = data[4], !.creator = data[5]] >>
    ELSE << [BlankEvent EXCEPT
               !.struct = "PumpFunTradeEvent",
               !.event_type = metadata.event_type, !.index = metadata.index,
               !.origin = metadata.origin,
               !.id = TradeId(data[1], data[2], data[3] = 1),
               !.mint = data[1], !.user = data[2], !.is_buy = (data[3] = 1),
               !.virtual_sol_reserves = data[4]] >>

\* discriminators::TRADE_EVENT_DISCRIMINATOR, the 8 bytes a trade event's log
\* data starts with
TRADE_EVENT_DISCRIMINATOR == SliceFrom(TRADE_EVENT_BYTES, 8)

\* one line of the loop of parse_trade_from_logs: the trade event the line
\* carries, if it carries one
TradeOfLogLine(metadata, log, decoded_data) ==
    IF /\ log.prefix = "Program data: "
       /\ decoded_data.ok
       /\ StartsWith(decoded_data.bytes, TRADE_EVENT_DISCRIMINATOR)
    THEN InnerInstructionParser("buy", SliceFrom(decoded_data.bytes, 8), metadata)
    ELSE <<>>

\* `return Some(..)` of the first line that gave an event
FirstSome(found, later) == IF Len(found) = 1 THEN found ELSE later

RECURSIVE ParseTradeFromLogs(_, _)
\* PumpFunEventParser::parse_trade_from_logs over the lines of Some(logs): the
\* first line that carries a trade event gives the event, with the id of the
\* event's own mint, user and direction
ParseTradeFromLogs(metadata, logs) ==
    IF Len(logs) = 0 THEN <<>>
    ELSE FirstSome(TradeOfLogLine(metadata, logs[1], DecodeBase64(logs[1].rest)),
                   ParseTradeFromLogs(metadata, Tail(logs)))

\* parse_trade_from_logs(&metadata, log_messages); log_messages is <<>> for
\* None and <<logs>> for Some(logs)
TradeFromLogs(metadata, log_messages) ==
    IF Len(log_messages) = 1 THEN ParseTradeFromLogs(metadata, log_messages[1]) ELSE <<>>

\* the instruction's own trade event: the fallback of the two hybrid parsers
TradeFromInstruction(data, accounts, metadata, is_buy) ==
    [BlankEvent EXCEPT
        !.struct = "PumpFunTradeEvent",
        !.event_type = metadata.event_type, !.index = metadata.index,
        !.origin = metadata.origin,
        !.id = TradeId(accounts[3], accounts[7], is_buy),
        !.mint = accounts[3], !.user = accounts[7],
        !.amount = FromLeBytes(SubSeq(data, 1, 8)),
        !.max_sol_cost = IF is_buy THEN FromLeBytes(SubSeq(data, 9, 16)) ELSE 0,
        !.is_buy = is_buy]

\* the body of the two hybrid parsers once parse_trade_from_logs has
\* returned log_event: Some(log_event) is returned, with amount (and, of a
\* buy, max_sol_cost) taken from the instruction when it is long enough;
\* without a log event the instruction's own event is
HybridEvent(data, accounts, metadata, log_event, is_buy) ==
    IF Len(log_event) = 1
    THEN IF Len(data) >= 16 /\ Len(accounts) >= 11
         THEN << [log_event[1] EXCEPT
                    !.amount = FromLeBytes(SubSeq(data, 1, 8)),
                    !.max_sol_cost = IF is_buy THEN FromLeBytes(SubSeq(data, 9, 16))
                                     ELSE @] >>
         ELSE log_event
    ELSE IF Len(data) < 16 \/ Len(accounts) < 11 THEN <<>>
    ELSE << TradeFromInstruction(data, accounts, metadata, is_buy) >>

\* PumpFunEventParser::parse_buy_instruction_hybrid
ParseBuyInstructionHybrid(data, accounts, metadata, log_messages) ==
    HybridEvent(data, accounts, metadata, TradeFromLogs(metadata, log_messages), TRUE)

\* PumpFunEventParser::parse_sell_instruction_hybrid
ParseSellInstructionHybrid(data, accounts, metadata, log_messages) ==
    HybridEvent(data, accounts, metadata, TradeFromLogs(metadata, log_messages), FALSE)

\* the instruction parsers of a configuration as the decoder calls them,
\* (data, accounts, metadata) -> Option<event>, without log messages: data is
\* what follows the discriminator, accounts the keys the instruction's account
\* indices resolve to
InstructionParser(parser, data, accounts, metadata) ==
    IF parser = "create" THEN ParseCreateTokenInstruction(data, accounts, metadata)
    ELSE IF parser = "buy"
    THEN Returned(ParseBuyInstructionHybrid(data, accounts, metadata, <<>>))
    ELSE Returned(ParseSellInstructionHybrid(data, accounts, metadata, <<>>))

(***************************************************************************)
(* GenericEventParser::parse_events_from_instruction and                   *)
(* parse_events_from_inner_instruction.  A result is [panic, events].      *)
(***************************************************************************)
\* the keys an instruction's account indices resolve to
ResolveAccounts(indices, accounts) == [k \in 1..Len(indices) |-> accounts[indices[k] + 1]]

RECURSIVE ParseWithConfigs(_, _, _, _)
\* `for config in configs`: every configuration's instruction parser runs, every
\* Some(event) is pushed; a panic of a parser ends the call
ParseWithConfigs(configs, data, account_pubkeys, place) ==
    IF Len(configs) = 0 THEN Returned(<<>>)
    ELSE Then(InstructionParser(configs[1].parser, data, account_pubkeys,
                  EventMetadata(configs[1].event_type, place.index, place.origin)),
              ParseWithConfigs(Tail(configs), data, account_pubkeys, place))

RECURSIVE InstructionConfigLoop(_, _, _, _, _)
\* `for (disc, configs) in &self.instruction_configs`, keys visited in order
InstructionConfigLoop(parser, order, instruction, accounts, place) ==
    IF Len(order) = 0 THEN Returned(<<>>)
    ELSE LET disc == order[1]
             rest == InstructionConfigLoop(parser, Tail(order), instruction, accounts, place)
         IN  IF Len(instruction.data) < Len(disc) THEN rest
             ELSE IF SubSeq(instruction.data, 1, Len(disc)) # disc THEN rest
             ELSE IF ~ValidateAccountIndices(instruction.accounts, Len(accounts)) THEN rest
             ELSE Then(ParseWithConfigs(parser.instruction_configs[disc],
                           SliceFrom(instruction.data, Len(disc)),
                           ResolveAccounts(instruction.accounts, accounts), place),
                       rest)

\* parse_events_from_instruction: `accounts[program_id_index]` panics out of range
ParseEventsFromInstruction(parser, seed, instruction, accounts, place) ==
    IF instruction.program_id_index >= Len(accounts) THEN Panicked
    ELSE IF ~ShouldHandle(parser, accounts[instruction.program_id_index + 1])
    THEN Returned(<<>>)
    ELSE InstructionConfigLoop(parser,
             IterationOrder(parser, "instruction_discriminator", seed),
             instruction, accounts, place)

RECURSIVE InnerParseWithConfigs(_, _, _)
InnerParseWithConfigs(configs, data, place) ==
    IF Len(configs) = 0 THEN <<>>
    ELSE InnerInstructionParser(configs[1].parser, data,
                                EventMetadata(configs[1].event_type, place.index, place.origin))
         \o InnerParseWithConfigs(Tail(configs), data, place)

RECURSIVE InnerConfigLoop(_, _, _, _, _)
\* `for (disc, configs) in &self.inner_instruction_configs`
InnerConfigLoop(parser, order, hex_str, data, place) ==
    IF Len(order) = 0 THEN <<>>
    ELSE LET rest == InnerConfigLoop(parser, Tail(order), hex_str, data, place)
         IN  IF DiscriminatorMatches(hex_str, order[1])
             THEN InnerParseWithConfigs(parser.inner_instruction_configs[order[1]], data, place)
                  \o rest
             ELSE rest

\* the function without `if decoded.len() < 16 { return Vec::new() }`: the
\* slice &decoded[16..] of shorter data panics
ParseEventsFromInnerInstructionUnguarded(parser, seed, inner_instruction, place) ==
    LET decoded == Bs58Decode(inner_instruction.data)
    IN  IF ~decoded.ok THEN Panicked
        ELSE IF Len(decoded.bytes) < 16 THEN Panicked
        ELSE Returned(InnerConfigLoop(parser,
                          IterationOrder(parser, "inner_instruction_discriminator", seed),
                          HexStr(decoded.bytes), SliceFrom(decoded.bytes, 16), place))

\* parse_events_from_inner_instruction: the base58 decode is unwrapped
ParseEventsFromInnerInstruction(parser, seed, inner_instruction, place) ==
    LET decoded == Bs58Decode(inner_instruction.data)
    IN  IF ~decoded.ok THEN Panicked
        ELSE IF Len(decoded.bytes) < 16 THEN Returned(<<>>)
        ELSE Returned(InnerConfigLoop(parser,
                          IterationOrder(parser, "inner_instruction_discriminator", seed),
                          HexStr(decoded.bytes), SliceFrom(decoded.bytes, 16), place))

(***************************************************************************)
(* EventParser::parse_events_from_logs, one log line at a time.            *)
(***************************************************************************)
LogPlace(parser, discriminator, decoded) ==
    [index |-> LogIndex,
     origin |-> [Origin("D", 0, 0, -1) EXCEPT
                    !.key = CHOOSE k \in 1..Len(parser.configs) :
                                FirstKeys(parser.configs,
                                          "inner_instruction_discriminator")[k]
                                = discriminator,
                    !.line = SubSeq(decoded, 1, 16)]]

\* the 8-byte form of a registry key: "0x" and what follows the first 16
\* characters of the key without its "0x"; None (<<>>) for a shorter key
SecondHalfWithPrefix(discriminator) ==
    LET discriminator_without_prefix == StripHexPrefix(discriminator)
    IN  IF Len(discriminator_without_prefix) >= 16
        THEN << <<"0", "x">> \o SliceFrom(discriminator_without_prefix, 16) >>
        ELSE <<>>

RECURSIVE LogConfigLoopSkipsSixteen(_, _, _, _)
\* the loop with 16 bytes skipped under either form of the discriminator
LogConfigLoopSkipsSixteen(parser, order, hex_str, decoded) ==
    IF Len(order) = 0 THEN <<>>
    ELSE LET discriminator == order[1]
             configs == parser.inner_instruction_configs[discriminator]
             rest == LogConfigLoopSkipsSixteen(parser, Tail(order), hex_str, decoded)
             second == SecondHalfWithPrefix(discriminator)
         IN  IF \/ StartsWith(hex_str, discriminator)
                \/ Len(second) = 1 /\ StartsWith(hex_str, second[1])
             THEN InnerParseWithConfigs(configs, SliceFrom(decoded, 16),
                                        LogPlace(parser, discriminator, decoded)) \o rest
             ELSE rest

RECURSIVE LogConfigLoop(_, _, _, _)
\* `for (discriminator, configs) in discriminators`
LogConfigLoop(parser, order, hex_str, decoded) ==
    IF Len(order) = 0 THEN <<>>
    ELSE LET discriminator == order[1]
             configs == parser.inner_instruction_configs[discriminator]
             rest == LogConfigLoop(parser, Tail(order), hex_str, decoded)
             second == SecondHalfWithPrefix(discriminator)
         IN  IF StartsWith(hex_str, discriminator)
             THEN InnerParseWithConfigs(configs, SliceFrom(decoded, 16),
                                        LogPlace(parser, discriminator, decoded)) \o rest
             ELSE IF Len(second) = 1 /\ StartsWith(hex_str, second[1])
             THEN InnerParseWithConfigs(configs, SliceFrom(decoded, 8),
                                        LogPlace(parser, discriminator, decoded)) \o rest
             ELSE rest

\* the body of `for log in logs`: the events one line adds
ParseLogLine(parser, seed, log) ==
    LET data_str == ExtractProgramData(log)
    IN  IF Len(data_str) = 0 THEN <<>>
        ELSE LET decoded == DecodeBase64(data_str[1])
             IN  IF ~decoded.ok THEN <<>>
                 ELSE IF Len(decoded.bytes) < 16 THEN <<>>
                 ELSE LogConfigLoop(parser,
                          IterationOrder(parser, "inner_instruction_discriminator", seed),
                          HexStr(decoded.bytes), decoded.bytes)

(***************************************************************************)
(* Pass B: the body of the loop over the top-level instructions in         *)
(* parse_instruction_events_from_versioned_transaction.                    *)
(***************************************************************************)
\* instruction.accounts.iter().max().unwrap_or(&0)
MaxIndex(indices) ==
    IF Len(indices) = 0 THEN 0
    ELSE CHOOSE m \in {indices[k] : k \in 1..Len(indices)} :
            \A k \in 1..Len(indices) : indices[k] <= m

\* a padding that makes the largest index addressable
PadAccountsThroughTheIndex(accounts, max_idx) ==
    IF max_idx >= Len(accounts)
    THEN accounts \o [k \in 1..(max_idx + 1 - Len(accounts)) |-> PubkeyDefault]
    ELSE accounts

\* if max_idx > accounts.len() { for _ in accounts.len()..max_idx { push(default) } }
PadAccounts(accounts, max_idx) ==
    IF max_idx > Len(accounts)
    THEN accounts \o [k \in 1..(max_idx - Len(accounts)) |-> PubkeyDefault]
    ELSE accounts

\* inner_instructions.iter().find(|g| g.index == index as u8): None is <<>>
FindGroup(groups, index) ==
    LET hits == SelectSeq(groups, LAMBDA g : g.index = index % 256)
    IN  IF Len(hits) = 0 THEN <<>> ELSE <<hits[1]>>

\* common::parse_transfer_datas_from_next_instructions(group, position,
\* accounts, event_type): a function of its arguments, kept as those arguments
ParseTransferDatas(group, position, accounts, event_type) ==
    << [group |-> group.index, after |-> position, event_type |-> event_type] >>

\* events.iter_mut().for_each(|event| event.set_transfer_datas(..))
AttachTransfers(events, group, position, accounts) ==
    [k \in 1..Len(events) |->
        [events[k] EXCEPT
            !.transfer_datas = ParseTransferDatas(group, position, accounts,
                                                 events[k].event_type),
            !.transfer_accounts = Len(accounts)]]

\* any(|account| self.should_handle(account))
HasProgram(parser, accounts) ==
    \E k \in 1..Len(accounts) : ShouldHandle(parser, accounts[k])

\* what Pass B does with the events of a handled instruction: the transfers
\* of the instruction's inner group are attached when there are events and the
\* group exists
Handled(parsed, padded, inn) ==
    [panic |-> parsed.panic,
     accounts |-> padded,
     handled |-> TRUE,
     events |-> IF Len(parsed.events) > 0 /\ Len(inn) = 1
                THEN AttachTransfers(parsed.events, inn[1], -1, padded)
                ELSE parsed.events]

\* one top-level instruction at position index: the account vector after it
\* and the events it adds, or the panic of an instruction parser
TopInstruction(parser, seed, instruction, index, has_program, accounts, groups) ==
    LET skipped == [panic |-> FALSE, accounts |-> accounts, events |-> <<>>,
                    handled |-> FALSE]
    IN  IF ~has_program THEN skipped
        ELSE IF instruction.program_id_index >= Len(accounts) THEN skipped
        ELSE IF ~ShouldHandle(parser, accounts[instruction.program_id_index + 1]) THEN skipped
        ELSE Handled(ParseEventsFromInstruction(parser, seed, instruction,
                         PadAccounts(accounts, MaxIndex(instruction.accounts)),
                         [index |-> TopIndex(index),
                          origin |-> Origin("B", index, 0,
                                        ResolvedProgram(instruction.program_id_index,
                                                        accounts))]),
                     PadAccounts(accounts, MaxIndex(instruction.accounts)),
                     FindGroup(groups, index))

\* what Pass C does with the events of the two parsers of one inner
\* instruction, or with the panic of the base58 unwrap or of a parser
Extended(decoded_ok, as_instruction, as_inner, group, index, accounts) ==
    IF ~decoded_ok \/ as_instruction.panic \/ as_inner.panic
    THEN [panic |-> TRUE, instruction_events |-> <<>>, inner_instruction_events |-> <<>>]
    ELSE [panic |-> FALSE,
          instruction_events |->
              AttachTransfers(as_instruction.events, group, index, accounts),
          inner_instruction_events |->
              AttachTransfers(as_inner.events, group, index, accounts)]

\* one inner instruction at position index of a group: what it adds to
\* instruction_events and to inner_instruction_events, or a panic
InnerInstruction(parser, seed, instruction, group, index, accounts) ==
    IF instruction.kind # "Compiled"
    THEN [panic |-> FALSE, instruction_events |-> <<>>, inner_instruction_events |-> <<>>]
    ELSE Extended(
             Bs58Decode(instruction.data).ok,
             ParseEventsFromInstruction(parser, seed,
                 [program_id_index |-> instruction.program_id_index,
                  accounts |-> instruction.accounts,
                  data |-> Bs58Decode(instruction.data).bytes],
                 accounts,
                 [index |-> InnerIndex(group.index, index),
                  origin |-> Origin("C", group.index, index,
                                ResolvedProgram(instruction.program_id_index, accounts))]),
             ParseEventsFromInnerInstruction(parser, seed, instruction,
                 [index |-> InnerIndex(group.index, index),
                  origin |-> Origin("I", group.index, index,
                                ResolvedProgram(instruction.program_id_index, accounts))]),
             group, index, accounts)

(***************************************************************************)
(* The merge phase of parse_transaction.                                   *)
(***************************************************************************)
\* UnifiedEvent::merge as the concrete events implement it: the fields the
\* log/inner parser is the authority for are taken from the other event, when
\* the other event is of the same concrete type
Merge(event, other) ==
    IF other.struct # event.struct THEN event
    ELSE [event EXCEPT !.virtual_sol_reserves = other.virtual_sol_reserves,
                       !.creator = other.creator]

\* the "T" against "T.I" test without the comparison of the parent with T
MergesUnderAnyParent(i_index, in_index) ==
    /\ ~ContainsDot(i_index)
    /\ ContainsDot(in_index)

\* the test that guards the merge of an inner event into an event of a
\* top-level instruction: "T" against "T.I"
MergesUnderParent(i_index, in_index) ==
    /\ ~ContainsDot(i_index)
    /\ ContainsDot(in_index)
    /\ SplitNth0(in_index) = i_index

\* the test that guards the merge of an inner event into an event of an inner
\* instruction: "T.I" against "T.J", J > I
MergesAsLaterSibling(i_index, in_index) ==
    /\ ContainsDot(i_index)
    /\ ContainsDot(in_index)
    /\ SplitNth0(i_index) = SplitNth0(in_index)
    /\ ParseU32OrZero(SplitNth1(in_index)) > ParseU32OrZero(SplitNth1(i_index))

RECURSIVE MergeScanKeepsScanning(_, _, _, _)
\* the scan with `continue` where the source has `break`
MergeScanKeepsScanning(instruction_event, inner_events, j, merged) ==
    IF j > Len(inner_events) THEN [event |-> instruction_event, merged |-> merged]
    ELSE IF instruction_event.id # inner_events[j].id
    THEN MergeScanKeepsScanning(instruction_event, inner_events, j + 1, merged)
    ELSE IF \/ inner_events[j].index = LogIndex
            \/ MergesUnderParent(instruction_event.index, inner_events[j].index)
            \/ MergesAsLaterSibling(instruction_event.index, inner_events[j].index)
    THEN MergeScanKeepsScanning(Merge(instruction_event, inner_events[j]), inner_events,
                                j + 1, merged \cup {j})
    ELSE MergeScanKeepsScanning(instruction_event, inner_events, j + 1, merged)

RECURSIVE MergeScanStopsAtSameId(_, _, _, _)
\* the scan with a `break` at the first inner event of the same id that is no
\* log event, merged or not
MergeScanStopsAtSameId(instruction_event, inner_events, j, merged) ==
    IF j > Len(inner_events) THEN [event |-> instruction_event, merged |-> merged]
    ELSE IF instruction_event.id # inner_events[j].id
    THEN MergeScanStopsAtSameId(instruction_event, inner_events, j + 1, merged)
    ELSE IF inner_events[j].index = LogIndex
    THEN MergeScanStopsAtSameId(Merge(instruction_event, inner_events[j]), inner_events,
                                j + 1, merged \cup {j})
    ELSE IF \/ MergesUnderParent(instruction_event.index, inner_events[j].index)
            \/ MergesAsLaterSibling(instruction_event.index, inner_events[j].index)
    THEN [event |-> Merge(instruction_event, inner_events[j]), merged |-> merged \cup {j}]
    ELSE [event |-> instruction_event, merged |-> merged]

RECURSIVE MergeScan(_, _, _, _)
\* `for inner_instruction_event in &inner_instruction_events` for one
\* instruction_event, from position j on: the event after the scan and the
\* positions it merged
MergeScan(instruction_event, inner_events, j, merged) ==
    IF j > Len(inner_events) THEN [event |-> instruction_event, merged |-> merged]
    ELSE IF instruction_event.id # inner_events[j].id
    THEN MergeScan(instruction_event, inner_events, j + 1, merged)
    ELSE IF inner_events[j].index = LogIndex
    THEN MergeScan(Merge(instruction_event, inner_events[j]), inner_events, j + 1,
                   merged \cup {j})
    ELSE IF \/ MergesUnderParent(instruction_event.index, inner_events[j].index)
            \/ MergesAsLaterSibling(instruction_event.index, inner_events[j].index)
    THEN [event |-> Merge(instruction_event, inner_events[j]), merged |-> merged \cup {j}]
    ELSE MergeScan(instruction_event, inner_events, j + 1, merged)

\* the merge phase with the inner events that no instruction event merged
\* pushed onto the list
MergePhaseEmitsUnmatched(instruction_events, inner_events) ==
    LET phase == [k \in 1..Len(instruction_events) |->
                     MergeScan(instruction_events[k], inner_events, 1, {})]
        unmatched == SelectSeq(inner_events,
                         LAMBDA e : \A k \in 1..Len(instruction_events) :
                                       instruction_events[k].id # e.id)
    IN  phase \o [k \in 1..Len(unmatched) |-> [event |-> unmatched[k], merged |-> {}]]

\* the merge phase: the instruction events after it, and for each the set of
\* positions of inner_instruction_events merged into it
MergePhase(instruction_events, inner_events) ==
    IF Len(instruction_events) > 0 /\ Len(inner_events) > 0
    THEN [k \in 1..Len(instruction_events) |->
             MergeScan(instruction_events[k], inner_events, 1, {})]
    ELSE [k \in 1..Len(instruction_events) |->
             [event |-> instruction_events[k], merged |-> {}]]

(***************************************************************************)
(* EventParser::process_events.                                            *)
(***************************************************************************)
\* Vec::contains
Contains(vec, x) == \E k \in 1..Len(vec) : vec[k] = x

\* the first if / else-if with the dev branch flipping the flag it finds
PumpFunStepFlipsDevFlag(event, dev_address, bot_wallet) ==
    IF event.struct = "PumpFunCreateTokenEvent"
    THEN [event |-> event,
          dev_address |->
              IF event.creator # PubkeyDefault /\ event.creator # event.user
              THEN dev_address \o <<event.user, event.creator>>
              ELSE dev_address \o <<event.user>>]
    ELSE IF event.struct = "PumpFunTradeEvent"
    THEN [dev_address |-> dev_address,
          event |->
              IF Contains(dev_address, event.user) \/ Contains(dev_address, event.creator)
              THEN [event EXCEPT !.is_dev_create_token_trade = ~@]
              ELSE IF <<event.user>> = bot_wallet
              THEN [event EXCEPT !.is_bot = TRUE]
              ELSE [event EXCEPT !.is_dev_create_token_trade = FALSE]]
    ELSE [event |-> event, dev_address |-> dev_address]

\* the first if / else-if of the loop body: PumpFun create, PumpFun trade
PumpFunStep(event, dev_address, bot_wallet) ==
    IF event.struct = "PumpFunCreateTokenEvent"
    THEN [event |-> event,
          dev_address |->
              IF event.creator # PubkeyDefault /\ event.creator # event.user
              THEN dev_address \o <<event.user, event.creator>>
              ELSE dev_address \o <<event.user>>]
    ELSE IF event.struct = "PumpFunTradeEvent"
    THEN [dev_address |-> dev_address,
          event |->
              IF Contains(dev_address, event.user) \/ Contains(dev_address, event.creator)
              THEN [event EXCEPT !.is_dev_create_token_trade = TRUE]
              ELSE IF <<event.user>> = bot_wallet
              THEN [event EXCEPT !.is_bot = TRUE]
              ELSE [event EXCEPT !.is_dev_create_token_trade = FALSE]]
    ELSE [event |-> event, dev_address |-> dev_address]

\* the Bonk trade tested against the dev address and against the bot wallet
\* by two separate ifs
BonkStepIndependentTests(event, bonk_dev_address, bot_wallet) ==
    IF event.struct = "BonkPoolCreateEvent"
    THEN [event |-> event, bonk_dev_address |-> <<event.creator>>]
    ELSE IF event.struct = "BonkTradeEvent"
    THEN [bonk_dev_address |-> bonk_dev_address,
          event |-> [event EXCEPT
                        !.is_dev_create_token_trade = (<<event.payer>> = bonk_dev_address),
                        !.is_bot = (<<event.payer>> = bot_wallet)]]
    ELSE [event |-> event, bonk_dev_address |-> bonk_dev_address]

\* the second if / else-if: Bonk pool create, Bonk trade; an Option is <<>> or <<x>>
BonkStep(event, bonk_dev_address, bot_wallet) ==
    IF event.struct = "BonkPoolCreateEvent"
    THEN [event |-> event, bonk_dev_address |-> <<event.creator>>]
    ELSE IF event.struct = "BonkTradeEvent"
    THEN [bonk_dev_address |-> bonk_dev_address,
          event |->
              IF <<event.payer>> = bonk_dev_address
              THEN [event EXCEPT !.is_dev_create_token_trade = TRUE]
              ELSE IF <<event.payer>> = bot_wallet
              THEN [event EXCEPT !.is_bot = TRUE]
              ELSE [event EXCEPT !.is_dev_create_token_trade = FALSE]]
    ELSE [event |-> event, bonk_dev_address |-> bonk_dev_address]

RECURSIVE ProcessLoop(_, _, _, _, _, _)
\* `for event in &mut events` from position k on; nows[k] is the clock read for
\* the k-th event, and program_received_time_ms is 0
ProcessLoop(events, k, dev_address, bonk_dev_address, bot_wallet, nows) ==
    IF k > Len(events) THEN <<>>
    ELSE LET first == PumpFunStep(events[k], dev_address, bot_wallet)
             second == BonkStep(first.event, bonk_dev_address, bot_wallet)
             stamped == [second.event EXCEPT !.program_handle_time_consuming_ms = nows[k]]
         IN  <<stamped>> \o ProcessLoop(events, k + 1, first.dev_address,
                                        second.bonk_dev_address, bot_wallet, nows)

\* two passes: the users of every PumpFun create of the list are collected
\* before the loop runs
ProcessEventsCreatorsFirst(events, bot_wallet, nows) ==
    ProcessLoop(events, 1,
                [k \in 1..Len(SelectSeq(events,
                                  LAMBDA e : e.struct = "PumpFunCreateTokenEvent")) |->
                    SelectSeq(events,
                              LAMBDA e : e.struct = "PumpFunCreateTokenEvent")[k].user],
                <<>>, bot_wallet, nows)

\* the loop's events returned last first
ProcessEventsLastFirst(events, bot_wallet, nows) ==
    Reverse(ProcessLoop(events, 1, <<>>, <<>>, bot_wallet, nows))

\* process_events(events, bot_wallet)
ProcessEvents(events, bot_wallet, nows) == ProcessLoop(events, 1, <<>>, <<>>, bot_wallet, nows)

\* the clock readings of one call, one per event: chrono::Utc::now() in
\* milliseconds, the call being over within one millisecond
ClockReadings(n) == {[k \in 1..n |-> now] : now \in {0, 1}}

(***************************************************************************)
(* Inputs.  A transaction's metadata, account keys and inner-group indexes *)
(* are drawn with the call; its top-level instructions, the instructions   *)
(* of its inner groups and its log lines are drawn when the walker reads   *)
(* them, each read once and in order.                                      *)
(***************************************************************************)
\* meta.loaded_addresses: writable and readonly
LoadedAddressSets ==
    { [writable |-> <<>>, readonly |-> <<>>],
      [writable |-> <<WalletB>>, readonly |-> <<TokenProgram>>] }

RECURSIVE Ascending(_)
\* the members of a set of naturals in ascending order
Ascending(S) ==
    IF S = {} THEN <<>>
    ELSE LET m == CHOOSE x \in S : \A y \in S : x <= y
         IN  <<m>> \o Ascending(S \ {m})

\* meta.inner_instructions: the groups' parent indexes, ascending
GroupIndexLists == {Ascending(S) : S \in SUBSET {0, 1}}

Transactions ==
    \* no metadata record
    { [meta_present |-> FALSE, err |-> FALSE, inner_present |-> FALSE,
       loaded_present |-> FALSE, group_indexes |-> <<>>,
       loaded_addresses |-> [writable |-> <<>>, readonly |-> <<>>],
       decodable |-> TRUE, static_account_keys |-> <<PUMPFUN_PROGRAM_ID, MintKey, WalletA>>] }
    \cup
    \* a failed transaction, with or without inner instructions and loaded addresses
    { [meta_present |-> TRUE, err |-> TRUE, inner_present |-> p,
       loaded_present |-> p, group_indexes |-> IF p THEN <<0>> ELSE <<>>,
       loaded_addresses |-> l,
       decodable |-> TRUE, static_account_keys |-> <<PUMPFUN_PROGRAM_ID, MintKey, WalletA>>]
      : p \in BOOLEAN, l \in LoadedAddressSets }
    \cup
    \* a successful transaction that lacks inner instructions or loaded addresses
    { [meta_present |-> TRUE, err |-> FALSE, inner_present |-> p,
       loaded_present |-> ~p, group_indexes |-> <<>>,
       loaded_addresses |-> [writable |-> <<>>, readonly |-> <<>>],
       decodable |-> TRUE, static_account_keys |-> <<PUMPFUN_PROGRAM_ID, MintKey, WalletA>>]
      : p \in BOOLEAN }
    \cup
    \* a successful transaction whose message decodes
    { [meta_present |-> TRUE, err |-> FALSE, inner_present |-> TRUE,
       loaded_present |-> TRUE, group_indexes |-> g, loaded_addresses |-> l,
       decodable |-> TRUE, static_account_keys |-> <<PUMPFUN_PROGRAM_ID, MintKey, WalletA>>]
      : g \in GroupIndexLists, l \in LoadedAddressSets }
    \cup
    \* one without the decoder's program among its accounts, one that does not decode
    { [meta_present |-> TRUE, err |-> FALSE, inner_present |-> TRUE,
       loaded_present |-> TRUE, group_indexes |-> g,
       loaded_addresses |-> [writable |-> <<WalletB>>, readonly |-> <<TokenProgram>>],
       decodable |-> d, static_account_keys |-> <<MintKey, WalletA>>]
      : g \in GroupIndexLists, d \in BOOLEAN }

TradePayload(reserves) == <<MintKey, WalletA, 1, reserves, 0, 0, 0, 0>>

\* instruction data after the discriminator: a buy or sell (amount and
\* max_sol_cost, 8 bytes each), a create (name "\t", symbol "\b", a 2-byte uri,
\* no creator)
TradeArgs == <<7, 0, 0, 0, 0, 0, 0, 0,  1, 0, 0, 0, 0, 0, 0, 0>>
CreateArgs == <<1, 0, 0, 0, 9,  1, 0, 0, 0, 8,  2, 0, 0, 0, 0, 0>>

\* a buy of amount 0 and max_sol_cost 0 followed by one more zero byte
ZeroTradeArgs == <<0, 0, 0, 0, 0, 0, 0, 0,  0, 0, 0, 0, 0, 0, 0, 0,  0>>

\* a create whose declared name length, 200, runs past the end of the data
LongNameArgs == <<200, 0, 0, 0, 9,  1, 0, 0, 0, 8,  2, 0, 0, 0, 0, 0>>

\* the account indexes of a buy of MintKey (position 2) by WalletA (position 6),
\* the last of them being last
BuyAccounts(last) == <<0, 0, 1, 0, 0, 0, 2, 0, 0, 0, last>>

\* top-level compiled instructions
TopInstructions ==
    { \* a buy by WalletA
      [program_id_index |-> 0, accounts |-> BuyAccounts(0), data |-> BUY_IX \o TradeArgs],
      \* a token create by WalletA (mint at position 0, user at position 7)
      [program_id_index |-> 0, accounts |-> <<1, 0, 0, 0, 0, 0, 0, 2, 0, 0, 0>>,
       data |-> CREATE_TOKEN_IX \o CreateArgs],
      \* a buy whose largest account index is the length of the static keys
      [program_id_index |-> 0, accounts |-> BuyAccounts(3), data |-> BUY_IX \o TradeArgs],
      \* a buy whose largest account index is past every account vector
      [program_id_index |-> 0, accounts |-> BuyAccounts(6), data |-> BUY_IX \o TradeArgs],
      \* a buy whose largest account index is the largest a u8 holds
      [program_id_index |-> 0, accounts |-> BuyAccounts(255), data |-> BUY_IX \o TradeArgs],
      \* an instruction of a program that is not the decoder's
      [program_id_index |-> 1, accounts |-> BuyAccounts(0), data |-> BUY_IX \o TradeArgs],
      \* a program id index past the account vector
      [program_id_index |-> 9, accounts |-> BuyAccounts(0), data |-> BUY_IX \o TradeArgs],
      \* data shorter than a discriminator
      [program_id_index |-> 0, accounts |-> BuyAccounts(0), data |-> <<102, 6>>],
      \* a buy of amount 0 whose data has one byte more
      [program_id_index |-> 0, accounts |-> BuyAccounts(0), data |-> BUY_IX \o ZeroTradeArgs],
      \* a token create whose name length runs past the end of the data
      [program_id_index |-> 0, accounts |-> <<1, 0, 0, 0, 0, 0, 0, 2, 0, 0, 0>>,
       data |-> CREATE_TOKEN_IX \o LongNameArgs] }

\* inner instructions (UiInstruction)
InnerInstructions ==
    { \* a buy by WalletA made by CPI
      [kind |-> "Compiled", program_id_index |-> 0, accounts |-> BuyAccounts(0),
       data |-> Encoded(BUY_IX \o TradeArgs)],
      \* the same buy made by CPI to a program that is not the decoder's
      [kind |-> "Compiled", program_id_index |-> 1, accounts |-> BuyAccounts(0),
       data |-> Encoded(BUY_IX \o TradeArgs)],
      \* the trade event of a buy by WalletA, with reserves 5 and with reserves 6
      [kind |-> "Compiled", program_id_index |-> 0, accounts |-> <<>>,
       data |-> Encoded(TRADE_EVENT_BYTES \o TradePayload(5))],
      [kind |-> "Compiled", program_id_index |-> 0, accounts |-> <<>>,
       data |-> Encoded(TRADE_EVENT_BYTES \o TradePayload(6))],
      \* data that is not base58
      [kind |-> "Compiled", program_id_index |-> 0, accounts |-> <<>>,
       data |-> Undecodable],
      \* a program id index past the account vector
      [kind |-> "Compiled", program_id_index |-> 9, accounts |-> <<>>,
       data |-> Encoded(<<3, 1>>)],
      \* not a compiled instruction
      [kind |-> "Parsed", program_id_index |-> 0, accounts |-> <<>>,
       data |-> Encoded(<<>>)] }

\* an inner instruction the source's contract calls malformed
Malformed(instruction, accounts) ==
    /\ instruction.kind = "Compiled"
    /\ \/ ~instruction.data.valid
       \/ instruction.program_id_index >= Len(accounts)

\* log lines
LogLines ==
    { \* the trade event of a buy by WalletA under the full 16-byte discriminator
      [prefix |-> "Program data: ",
       rest |-> Encoded(TRADE_EVENT_BYTES \o TradePayload(8))],
      \* the same event under the trailing 8 bytes of the discriminator
      [prefix |-> "Program data: ",
       rest |-> Encoded(SliceFrom(TRADE_EVENT_BYTES, 8) \o TradePayload(9))],
      \* the create event of the token create by WalletA, creator WalletB
      [prefix |-> "Program data: ",
       rest |-> Encoded(CREATE_TOKEN_EVENT_BYTES \o <<9, 8, MintKey, WalletA, WalletB, 0, 0, 0>>)],
      \* 16 bytes of program data that start with no discriminator
      [prefix |-> "Program data: ",
       rest |-> Encoded(<<77, 77, 77, 77, 77, 77, 77, 77>> \o TradePayload(3))],
      \* a line that is no program data, one that is not base64, a short one
      [prefix |-> "Program log: ", rest |-> Encoded(<<>>)],
      [prefix |-> "Program data: ", rest |-> Undecodable],
      [prefix |-> "Program data: ", rest |-> Encoded(<<1, 2, 3>>)] }

\* the caller's bot_wallet: None or Some(key)
BotWallets == { <<>>, <<WalletA>> }

(***************************************************************************)
(* State of one parse_transaction call.                                    *)
(***************************************************************************)
VARIABLES
    pc,                        \* where the call is: call, passB, passC, passD, process, done
    outcome,                   \* running, Ok (the list is instruction_events), Err, panic
    hash_seed,                 \* the iteration order of the decoder's HashMaps
    decoder,                   \* the decoder the call runs on (its name)
    args,                      \* the arguments of a direct call of an instruction parser
    tx,                        \* the transaction's metadata and account keys
    accounts,                  \* parse_transaction's account vector
    padded_accounts,           \* Pass B's own copy of it, which Pass B pads
    inner_instructions,        \* the groups Pass C walks
    top_index,                 \* Pass B: position of the next top-level instruction
    last_top,                  \* Pass B: what the last instruction did to the vector
    group_pos,                 \* Pass C: the group being walked (1-based)
    inner_index,               \* Pass C: position of the next instruction in it
    saw_malformed,             \* Pass C: a malformed inner instruction was read
    saw_foreign,               \* an instruction of another program carried a discriminator
    items,                     \* instructions and log lines read so far
    instruction_events,
    inner_instruction_events,
    log_events,
    parsed_events,             \* instruction_events as the passes left them
    merged,                    \* per instruction event: positions of inner events merged
    twin,                      \* the lists of a decoder of the same configurations
                               \* whose HashMaps iterate in the other order
    bot_wallet,
    shared_decoder,            \* the decoder value concurrent calls share by reference
    tasks                      \* the frames of the concurrent calls, one per task

vars ==
    <<pc, outcome, hash_seed, decoder, args, tx, accounts, padded_accounts,
      inner_instructions, top_index, last_top, group_pos, inner_index,
      saw_malformed, saw_foreign, items, instruction_events,
      inner_instruction_events, log_events, parsed_events, merged, twin,
      bot_wallet, shared_decoder, tasks>>

NoTop == [handled |-> FALSE, accounts |-> <<>>, len_before |-> 0]

NoTwin == [instruction_events |-> <<>>, inner_instruction_events |-> <<>>,
           log_events |-> <<>>]

NoCall == [parser |-> "none", data |-> <<>>, accounts |-> <<>>, log_messages |-> <<>>]

NoTransaction ==
    [meta_present |-> FALSE, err |-> FALSE, inner_present |-> FALSE,
     loaded_present |-> FALSE, group_indexes |-> <<>>,
     loaded_addresses |-> [writable |-> <<>>, readonly |-> <<>>],
     decodable |-> FALSE, static_account_keys |-> <<>>]

\* the state a call starts in, whatever its arguments
Fresh ==
    /\ outcome = "running"
    /\ accounts = <<>>
    /\ padded_accounts = <<>>
    /\ inner_instructions = <<>>
    /\ top_index = 0
    /\ last_top = NoTop
    /\ group_pos = 1
    /\ inner_index = 0
    /\ saw_malformed = FALSE
    /\ saw_foreign = FALSE
    /\ items = 0
    /\ inner_instruction_events = <<>>
    /\ log_events = <<>>
    /\ parsed_events = <<>>
    /\ merged = <<>>
    /\ twin = NoTwin
    /\ bot_wallet = <<>>
    /\ shared_decoder = <<>>
    /\ tasks = <<>>

Init ==
    /\ pc = "call"
    /\ hash_seed \in {0, 1}
    /\ decoder \in Decoders
    /\ args = NoCall
    /\ tx \in Transactions
    /\ instruction_events = <<>>
    /\ Fresh

\* the call ends: nothing of its frame is read again
Finish(how) ==
    /\ pc' = "done"
    /\ outcome' = how

(***************************************************************************)
(* parse_transaction up to Pass B: the metadata check, the loaded          *)
(* addresses, the account vector.                                          *)
(***************************************************************************)
\* meta.inner_instructions, cloned when the transaction did not fail
LoadInnerInstructions(t) ==
    IF ~t.err THEN [k \in 1..Len(t.group_indexes) |-> [index |-> t.group_indexes[k]]]
    ELSE <<>>

\* the lookups pushed readonly first
AddressTableLookupsReadonlyFirst(t) ==
    IF ~t.err THEN t.loaded_addresses.readonly \o t.loaded_addresses.writable
    ELSE <<>>

\* address_table_lookups: writable then readonly, when the transaction did not fail
AddressTableLookups(t) ==
    IF ~t.err THEN t.loaded_addresses.writable \o t.loaded_addresses.readonly
    ELSE <<>>

\* the account vector: the static keys, when the transaction decodes, then the lookups
ResolvedAccounts(t) ==
    IF t.decodable THEN t.static_account_keys \o AddressTableLookups(t)
    ELSE AddressTableLookups(t)

Begin ==
    /\ pc = "call"
    /\ IF ~tx.meta_present
       THEN /\ Finish("Err")
            /\ UNCHANGED <<accounts, padded_accounts, inner_instructions>>
       ELSE IF ~tx.err /\ (~tx.inner_present \/ ~tx.loaded_present)
       THEN /\ Finish("panic")
            /\ UNCHANGED <<accounts, padded_accounts, inner_instructions>>
       ELSE /\ inner_instructions' = LoadInnerInstructions(tx)
            /\ accounts' = ResolvedAccounts(tx)
            /\ padded_accounts' = IF tx.decodable THEN ResolvedAccounts(tx) ELSE <<>>
            /\ pc' = IF tx.decodable THEN "passB" ELSE "passC"
            /\ UNCHANGED outcome
    /\ UNCHANGED <<hash_seed, decoder, args, tx, top_index, last_top, group_pos,
                   inner_index, saw_malformed, saw_foreign, items,
                   instruction_events, inner_instruction_events, log_events,
                   parsed_events, merged, twin, bot_wallet,
                   shared_decoder, tasks>>

\* an instruction whose program is not the decoder's and whose data starts
\* with one of the decoder's instruction discriminators
Foreign(parser, program_id_index, data, account_keys) ==
    /\ ResolvedProgram(program_id_index, account_keys) # parser.program_id
    /\ \E disc \in DOMAIN parser.instruction_configs : StartsWith(data, disc)

(***************************************************************************)
(* Pass B.                                                                 *)
(***************************************************************************)
TopInstructionStep ==
    /\ pc = "passB"
    /\ items < MaxItems
    /\ \E instruction \in TopInstructions :
         \E step \in {TopInstruction(DecoderOf(decoder), hash_seed, instruction, top_index,
                                     HasProgram(DecoderOf(decoder), accounts),
                                     padded_accounts, inner_instructions)},
            other \in {TopInstruction(DecoderOf(decoder), 1 - hash_seed, instruction,
                                      top_index, HasProgram(DecoderOf(decoder), accounts),
                                      padded_accounts, inner_instructions)} :
             /\ saw_foreign' = (saw_foreign \/ Foreign(DecoderOf(decoder), instruction.program_id_index,
                                                       instruction.data, padded_accounts))
             /\ IF step.panic
                THEN /\ Finish("panic")
                     /\ last_top' = NoTop
                     /\ UNCHANGED <<padded_accounts, instruction_events, twin>>
                ELSE /\ padded_accounts' = step.accounts
                     /\ instruction_events' = instruction_events \o step.events
                     /\ twin' = [twin EXCEPT !.instruction_events = @ \o other.events]
                     /\ last_top' = [handled |-> step.handled,
                                     accounts |-> instruction.accounts,
                                     len_before |-> Len(padded_accounts)]
                     /\ UNCHANGED <<pc, outcome>>
    /\ top_index' = top_index + 1
    /\ items' = items + 1
    /\ UNCHANGED <<hash_seed, decoder, args, tx, accounts, inner_instructions,
                   group_pos, inner_index, saw_malformed, inner_instruction_events,
                   log_events, parsed_events, merged, bot_wallet,
                   shared_decoder, tasks>>

\* the last top-level instruction has been read (every inner group's parent is
\* one of them); the padded copy is dropped
EndPassB ==
    /\ pc = "passB"
    /\ \A k \in 1..Len(inner_instructions) : inner_instructions[k].index < top_index
    /\ pc' = "passC"
    /\ padded_accounts' = <<>>
    /\ top_index' = 0
    /\ last_top' = NoTop
    /\ UNCHANGED <<outcome, hash_seed, decoder, args, tx, accounts, inner_instructions,
                   group_pos, inner_index, saw_malformed, saw_foreign, items,
                   instruction_events, inner_instruction_events, log_events,
                   parsed_events, merged, twin, bot_wallet,
                   shared_decoder, tasks>>

(***************************************************************************)
(* Pass C.                                                                 *)
(***************************************************************************)
InnerInstructionStep ==
    /\ pc = "passC"
    /\ ~tx.err
    /\ group_pos <= Len(inner_instructions)
    /\ items < MaxItems
    /\ \E instruction \in InnerInstructions :
         \E step \in {InnerInstruction(DecoderOf(decoder), hash_seed, instruction,
                                       inner_instructions[group_pos], inner_index, accounts)},
            other \in {InnerInstruction(DecoderOf(decoder), 1 - hash_seed, instruction,
                                        inner_instructions[group_pos], inner_index,
                                        accounts)} :
             /\ saw_malformed' = (saw_malformed \/ Malformed(instruction, accounts))
             /\ saw_foreign' =
                    (saw_foreign \/ (/\ instruction.kind = "Compiled"
                                     /\ Foreign(DecoderOf(decoder), instruction.program_id_index,
                                                instruction.data.bytes, accounts)))
             /\ IF step.panic
                THEN /\ Finish("panic")
                     /\ UNCHANGED <<instruction_events, inner_instruction_events, twin>>
                ELSE /\ instruction_events' = instruction_events \o step.instruction_events
                     /\ inner_instruction_events' =
                            inner_instruction_events \o step.inner_instruction_events
                     /\ twin' = [twin EXCEPT
                            !.instruction_events = @ \o other.instruction_events,
                            !.inner_instruction_events = @ \o other.inner_instruction_events]
                     /\ UNCHANGED <<pc, outcome>>
    /\ inner_index' = inner_index + 1
    /\ items' = items + 1
    /\ UNCHANGED <<hash_seed, decoder, args, tx, accounts, padded_accounts,
                   inner_instructions, top_index, last_top, group_pos, log_events,
                   parsed_events, merged, bot_wallet,
                   shared_decoder, tasks>>

\* the group has no further instruction
NextGroup ==
    /\ pc = "passC"
    /\ ~tx.err
    /\ group_pos <= Len(inner_instructions)
    /\ group_pos' = group_pos + 1
    /\ inner_index' = 0
    /\ UNCHANGED <<pc, outcome, hash_seed, decoder, args, tx, accounts, padded_accounts,
                   inner_instructions, top_index, last_top, saw_malformed,
                   saw_foreign, items, instruction_events,
                   inner_instruction_events, log_events, parsed_events, merged,
                   twin, bot_wallet,
                   shared_decoder, tasks>>

\* Pass C is over, or never ran: the transaction failed
EndPassC ==
    /\ pc = "passC"
    /\ tx.err \/ group_pos > Len(inner_instructions)
    /\ pc' = "passD"
    /\ group_pos' = 1
    /\ inner_index' = 0
    /\ UNCHANGED <<outcome, hash_seed, decoder, args, tx, accounts, padded_accounts,
                   inner_instructions, top_index, last_top, saw_malformed,
                   saw_foreign, items, instruction_events, inner_instruction_events,
                   log_events, parsed_events, merged, twin, bot_wallet,
                   shared_decoder, tasks>>

(***************************************************************************)
(* Pass D and the merge phase.                                             *)
(***************************************************************************)
LogLineStep ==
    /\ pc = "passD"
    /\ items < MaxItems
    /\ \E log \in LogLines :
         /\ log_events' = log_events \o ParseLogLine(DecoderOf(decoder), hash_seed, log)
         /\ twin' = [twin EXCEPT
                !.log_events = @ \o ParseLogLine(DecoderOf(decoder), 1 - hash_seed, log)]
    /\ items' = items + 1
    /\ UNCHANGED <<pc, outcome, hash_seed, decoder, args, tx, accounts, padded_accounts,
                   inner_instructions, top_index, last_top, group_pos, inner_index,
                   saw_malformed, saw_foreign, instruction_events,
                   inner_instruction_events, parsed_events, merged, bot_wallet,
                   shared_decoder, tasks>>

\* the log events extended onto instruction_events instead
ExtendOntoInstructionEvents(instruction_evs, inner_evs, log_evs) ==
    [instruction_events |-> instruction_evs \o log_evs, inner_instruction_events |-> inner_evs]

\* inner_instruction_events.extend(log_events)
ExtendWithLogs(instruction_evs, inner_evs, log_evs) ==
    [instruction_events |-> instruction_evs, inner_instruction_events |-> inner_evs \o log_evs]

\* the last log line has been read (no log messages: none was): the log events
\* join the inner events and the merge phase runs
MergeStep ==
    /\ pc = "passD"
    /\ LET lists == ExtendWithLogs(instruction_events, inner_instruction_events, log_events)
           phase == MergePhase(lists.instruction_events, lists.inner_instruction_events)
           others == ExtendWithLogs(twin.instruction_events,
                                    twin.inner_instruction_events, twin.log_events)
           other == MergePhase(others.instruction_events, others.inner_instruction_events)
       IN  /\ inner_instruction_events' = lists.inner_instruction_events
           /\ parsed_events' = lists.instruction_events
           /\ instruction_events' = [k \in 1..Len(phase) |-> phase[k].event]
           /\ merged' = [k \in 1..Len(phase) |-> phase[k].merged]
           /\ twin' = [twin EXCEPT
                  !.instruction_events = [k \in 1..Len(other) |-> other[k].event],
                  !.inner_instruction_events = others.inner_instruction_events]
    /\ pc' = "process"
    /\ items' = 0
    /\ UNCHANGED <<outcome, hash_seed, decoder, args, tx, accounts, padded_accounts,
                   inner_instructions, top_index, last_top, group_pos, inner_index,
                   saw_malformed, saw_foreign, log_events, bot_wallet,
                   shared_decoder, tasks>>

(***************************************************************************)
(* process_events, as parse_transaction's last step and called directly.   *)
(***************************************************************************)
Process ==
    /\ pc = "process"
    /\ \E wallet \in BotWallets, nows \in ClockReadings(Len(instruction_events)) :
         /\ bot_wallet' = wallet
         /\ instruction_events' = ProcessEvents(instruction_events, wallet, nows)
         /\ twin' = [twin EXCEPT
                !.instruction_events = ProcessEvents(@, wallet, nows)]
    /\ Finish("Ok")
    /\ UNCHANGED <<hash_seed, decoder, args, tx, accounts, padded_accounts,
                   inner_instructions, top_index, last_top, group_pos, inner_index,
                   saw_malformed, saw_foreign, items, inner_instruction_events,
                   log_events, parsed_events, merged,
                   shared_decoder, tasks>>

Next ==
    \/ Begin
    \/ TopInstructionStep
    \/ EndPassB
    \/ InnerInstructionStep
    \/ NextGroup
    \/ EndPassC
    \/ LogLineStep
    \/ MergeStep
    \/ Process

Spec == Init /\ [][Next]_vars

(***************************************************************************)
(* process_events called directly, with a list of events of both           *)
(* protocols the post-processor knows, and called again on the list it     *)
(* returned.                                                               *)
(***************************************************************************)
PumpFunCreateTokenEvent(user, creator) ==
    [BlankEvent EXCEPT !.struct = "PumpFunCreateTokenEvent",
                       !.event_type = "PumpFunCreateToken",
                       !.user = user, !.creator = creator]

PumpFunTradeEvent(user) ==
    [BlankEvent EXCEPT !.struct = "PumpFunTradeEvent", !.event_type = "PumpFunBuy",
                       !.user = user, !.is_buy = TRUE]

BonkPoolCreateEvent(creator) ==
    [BlankEvent EXCEPT !.struct = "BonkPoolCreateEvent",
                       !.event_type = "BonkInitialize", !.creator = creator]

BonkTradeEvent(payer) ==
    [BlankEvent EXCEPT !.struct = "BonkTradeEvent", !.event_type = "BonkBuyExactIn",
                       !.payer = payer]

\* the events a caller hands to process_events
PostProcessorEvents ==
    { PumpFunCreateTokenEvent(WalletA, PubkeyDefault),
      PumpFunCreateTokenEvent(WalletB, WalletA),
      PumpFunTradeEvent(WalletA), PumpFunTradeEvent(WalletB),
      \* a trade by WalletB of a token whose creator is WalletA
      [PumpFunTradeEvent(WalletB) EXCEPT !.creator = WalletA],
      BonkPoolCreateEvent(WalletA), BonkPoolCreateEvent(WalletB),
      BonkTradeEvent(WalletA), BonkTradeEvent(WalletB) }

\* the lists of at most MaxEvents of them
EventLists ==
    UNION { [1..n -> PostProcessorEvents] : n \in 0..MaxEvents }

InitPE ==
    /\ pc = "process"
    /\ hash_seed = 0
    /\ decoder = "PumpFunEventParser"
    /\ args = NoCall
    /\ tx = NoTransaction
    /\ instruction_events \in EventLists
    /\ Fresh

\* process_events(list, bot_wallet) on the list the first call returned, parsed_events
\* keeping that list
ProcessAgain ==
    /\ pc = "done"
    /\ outcome = "Ok"
    /\ \E nows \in ClockReadings(Len(instruction_events)) :
         instruction_events' = ProcessEvents(instruction_events, bot_wallet, nows)
    /\ parsed_events' = instruction_events
    /\ pc' = "again"
    /\ UNCHANGED <<outcome, hash_seed, decoder, args, tx, accounts, padded_accounts,
                   inner_instructions, top_index, last_top, group_pos, inner_index,
                   saw_malformed, saw_foreign, items, inner_instruction_events,
                   log_events, merged, twin, bot_wallet,
                   shared_decoder, tasks>>

NextPE ==
    \/ Process
    \/ ProcessAgain

SpecPE == InitPE /\ [][NextPE]_vars


(***************************************************************************)
(* The instruction parsers of PumpFunEventParser called directly, with the *)
(* log messages of the transaction.                                        *)
(***************************************************************************)
\* the keys an instruction's 11 accounts resolve to: the mint at position 2,
\* the user at position 6 (position 0 for a create's mint, 7 for its user)
TradeKeys(user) ==
    <<TokenProgram, TokenProgram, MintKey, TokenProgram, TokenProgram, TokenProgram,
      user, TokenProgram, TokenProgram, TokenProgram, TokenProgram>>

CreateKeys(user) ==
    <<MintKey, TokenProgram, TokenProgram, TokenProgram, TokenProgram, TokenProgram,
      TokenProgram, user, TokenProgram, TokenProgram, TokenProgram>>

\* a "Program data: " line carrying the trade event of a trade of MintKey
TradeLogLine(user, is_buy, reserves) ==
    [prefix |-> "Program data: ",
     rest |-> Encoded(TRADE_EVENT_DISCRIMINATOR
                      \o <<MintKey, user, IF is_buy THEN 1 ELSE 0, reserves, 0, 0, 0, 0>>)]

\* log_messages: None, or Some of the lines
LogMessages ==
    { <<>>,
      << <<>> >>,
      \* the buy's own trade event, after a line that is no program data
      << << [prefix |-> "Program log: ", rest |-> Encoded(<<>>)],
            TradeLogLine(WalletA, TRUE, 5) >> >>,
      \* the trade event of a sell by WalletB, of another instruction
      << << TradeLogLine(WalletB, FALSE, 6) >> >>,
      \* the sell's event first, then the buy's
      << << TradeLogLine(WalletB, FALSE, 6), TradeLogLine(WalletA, TRUE, 5) >> >>,
      \* a line that is not base64
      << << [prefix |-> "Program data: ", rest |-> Undecodable] >> >> }

\* create data: a symbol length past the end, a uri length past the end, a
\* name that ends where the data ends, a creator after the uri, data shorter
\* than the three length prefixes
LongSymbolArgs == <<1, 0, 0, 0, 9,  50, 0, 0, 0, 8,  2, 0, 0, 0, 0, 0>>
LongUriArgs == <<1, 0, 0, 0, 9,  1, 0, 0, 0, 8,  9, 0, 0, 0, 0, 0>>
NameToTheEndArgs == <<12, 0, 0, 0,  9, 9, 9, 9, 9, 9, 9, 9, 9, 9, 9, 9>>
CreatorArgs == CreateArgs \o <<WalletB>>
ShortArgs == <<1, 0, 0, 0, 9,  1, 0, 0>>

\* the direct calls
ParserCalls ==
    { [parser |-> q, data |-> d, accounts |-> a, log_messages |-> l] :
        q \in {"buy", "sell"},
        d \in {TradeArgs, ZeroTradeArgs, <<7, 0, 0>>},
        a \in {TradeKeys(WalletA), TradeKeys(WalletB), SubSeq(TradeKeys(WalletA), 1, 10)},
        l \in LogMessages }
    \cup
    { [parser |-> "create", data |-> d, accounts |-> a, log_messages |-> <<>>] :
        d \in {CreateArgs, CreatorArgs, LongNameArgs, LongSymbolArgs, LongUriArgs,
               NameToTheEndArgs, ShortArgs},
        a \in {CreateKeys(WalletA), SubSeq(CreateKeys(WalletA), 1, 10)} }

\* the metadata a direct call is handed
CallMetadata(call) ==
    EventMetadata(IF call.parser = "create" THEN "PumpFunCreateToken"
                  ELSE IF call.parser = "buy" THEN "PumpFunBuy" ELSE "PumpFunSell",
                  TopIndex(0), NoOrigin)

\* the call's result, [panic, events]
CallInstructionParser(call) ==
    IF call.parser = "create"
    THEN ParseCreateTokenInstruction(call.data, call.accounts, CallMetadata(call))
    ELSE IF call.parser = "buy"
    THEN Returned(ParseBuyInstructionHybrid(call.data, call.accounts,
                                            CallMetadata(call), call.log_messages))
    ELSE Returned(ParseSellInstructionHybrid(call.data, call.accounts,
                                             CallMetadata(call), call.log_messages))

InitIP ==
    /\ pc = "parse"
    /\ hash_seed = 0
    /\ decoder = "PumpFunEventParser"
    /\ args \in ParserCalls
    /\ tx = NoTransaction
    /\ instruction_events = <<>>
    /\ Fresh

\* the parser runs: Some(event) is a list of one event, None the empty list
ParseInstruction ==
    /\ pc = "parse"
    /\ LET result == CallInstructionParser(args)
       IN  /\ instruction_events' = result.events
           /\ Finish(IF result.panic THEN "panic" ELSE "Ok")
    /\ UNCHANGED <<hash_seed, decoder, args, tx, accounts, padded_accounts,
                   inner_instructions, top_index, last_top, group_pos, inner_index,
                   saw_malformed, saw_foreign, items, inner_instruction_events,
                   log_events, parsed_events, merged, twin, bot_wallet,
                   shared_decoder, tasks>>

NextIP == ParseInstruction

SpecIP == InitIP /\ [][NextIP]_vars

(***************************************************************************)
(* The three functions that walk the discriminator maps, called directly:  *)
(* parse_events_from_instruction, parse_events_from_inner_instruction and  *)
(* parse_events_from_logs on one log line.                                 *)
(***************************************************************************)
CreatePayload == <<9, 8, MintKey, WalletA, WalletB, 0, 0, 0>>

\* the bytes of an inner instruction's data or of a log line's program data
Payloads ==
    { \* a trade event and a create event under their 16-byte discriminators
      TRADE_EVENT_BYTES \o TradePayload(5),
      CREATE_TOKEN_EVENT_BYTES \o CreatePayload,
      \* the same events under the trailing 8 bytes of the discriminators
      SliceFrom(TRADE_EVENT_BYTES, 8) \o TradePayload(9),
      SliceFrom(CREATE_TOKEN_EVENT_BYTES, 8) \o CreatePayload,
      \* a create event under 16 bytes that are twice the first 8 bytes of
      \* every event discriminator, and under those 8 bytes once
      EventTag \o EventTag \o CreatePayload,
      EventTag \o CreatePayload,
      \* a trade event discriminator followed by 7 cells, which is no event
      TRADE_EVENT_BYTES \o SubSeq(TradePayload(5), 1, 7),
      \* 15 bytes of a trade event discriminator; the trailing 8 bytes of it
      \* followed by 4 cells; 3 bytes; 16 bytes that start with no discriminator
      SubSeq(TRADE_EVENT_BYTES, 1, 15),
      SliceFrom(TRADE_EVENT_BYTES, 8) \o <<MintKey, WalletA, 1, 5>>,
      <<1, 2, 3>>,
      <<77, 77, 77, 77, 77, 77, 77, 77>> \o TradePayload(3) }

\* the direct calls: an instruction and the account vector, an inner
\* instruction, a log line
MapWalks ==
    { [call |-> "instruction", item |-> i,
       accounts |-> <<PUMPFUN_PROGRAM_ID, MintKey, WalletA>>] :
        i \in TopInstructions \cup
              { [program_id_index |-> 0, accounts |-> BuyAccounts(0),
                 data |-> SELL_IX \o TradeArgs] } }
    \cup
    { [call |-> "inner_instruction",
       item |-> [kind |-> "Compiled", program_id_index |-> 0, accounts |-> <<>>,
                 data |-> d],
       accounts |-> <<>>] :
        d \in {Encoded(b) : b \in Payloads} \cup {Undecodable} }
    \cup
    { [call |-> "logs", item |-> l, accounts |-> <<>>] :
        l \in { [prefix |-> "Program data: ", rest |-> d] :
                   d \in {Encoded(b) : b \in Payloads} \cup {Undecodable} }
              \cup { [prefix |-> "Program log: ",
                      rest |-> Encoded(TRADE_EVENT_BYTES \o TradePayload(5))] } }

\* where a direct call's events are said to come from
WalkPlace == [index |-> TopIndex(0), origin |-> NoOrigin]

\* the call's result, [panic, events]
WalkMaps(parser, seed, walk) ==
    IF walk.call = "instruction"
    THEN ParseEventsFromInstruction(parser, seed, walk.item, walk.accounts, WalkPlace)
    ELSE IF walk.call = "inner_instruction"
    THEN ParseEventsFromInnerInstruction(parser, seed, walk.item, WalkPlace)
    ELSE Returned(ParseLogLine(parser, seed, walk.item))

InitDM ==
    /\ pc = "walk"
    /\ hash_seed \in {0, 1}
    /\ decoder \in Decoders \cup {"CollidingParser"}
    /\ args \in MapWalks
    /\ tx = NoTransaction
    /\ instruction_events = <<>>
    /\ Fresh

\* the function runs: the list it returns is instruction_events
Walk ==
    /\ pc = "walk"
    /\ \E result \in {WalkMaps(DecoderOf(decoder), hash_seed, args)} :
         /\ instruction_events' = result.events
         /\ Finish(IF result.panic THEN "panic" ELSE "Ok")
    /\ UNCHANGED <<hash_seed, decoder, args, tx, accounts, padded_accounts,
                   inner_instructions, top_index, last_top, group_pos, inner_index,
                   saw_malformed, saw_foreign, items, inner_instruction_events,
                   log_events, parsed_events, merged, twin, bot_wallet,
                   shared_decoder, tasks>>

NextDM == Walk

SpecDM == InitDM /\ [][NextDM]_vars

(***************************************************************************)
(* Two parse_transaction calls on one decoder value, on different          *)
(* transactions, run by two tasks whose steps interleave.  Every method    *)
(* takes &self: the decoder is shared by reference, and a call's account   *)
(* vectors and event lists are locals of its own frame.                    *)
(***************************************************************************)
\* instructions and log lines one concurrent call reads at most
MaxTaskItems == 2

Tasks == {1, 2}

\* the transactions of the two calls: a successful one with an inner group
\* under instruction 0, a failed one
TaskTransactions ==
    { [meta_present |-> TRUE, err |-> e, inner_present |-> TRUE,
       loaded_present |-> TRUE, group_indexes |-> IF e THEN <<>> ELSE <<0>>,
       loaded_addresses |-> [writable |-> <<WalletB>>, readonly |-> <<>>],
       decodable |-> TRUE, static_account_keys |-> <<PUMPFUN_PROGRAM_ID, MintKey, WalletA>>]
      : e \in BOOLEAN }

\* what the calls read: a buy, a buy that makes Pass B pad its vector, a create
TaskTopInstructions ==
    { [program_id_index |-> 0, accounts |-> BuyAccounts(0), data |-> BUY_IX \o TradeArgs],
      [program_id_index |-> 0, accounts |-> BuyAccounts(6), data |-> BUY_IX \o TradeArgs],
      [program_id_index |-> 0, accounts |-> <<1, 0, 0, 0, 0, 0, 0, 2, 0, 0, 0>>,
       data |-> CREATE_TOKEN_IX \o CreateArgs] }

\* the trade event of the buy, and a buy made by CPI whose last account is
\* the loaded address
TaskInnerInstructions ==
    { [kind |-> "Compiled", program_id_index |-> 0, accounts |-> <<>>,
       data |-> Encoded(TRADE_EVENT_BYTES \o TradePayload(5))],
      [kind |-> "Compiled", program_id_index |-> 0, accounts |-> BuyAccounts(3),
       data |-> Encoded(BUY_IX \o TradeArgs)] }

TaskLogLines ==
    { [prefix |-> "Program data: ",
       rest |-> Encoded(TRADE_EVENT_BYTES \o TradePayload(8))] }

\* the frame of a call: its locals, and what it has read (tops, inners, logs)
NewFrame(t) ==
    [pc |-> "call", outcome |-> "running", tx |-> t,
     accounts |-> <<>>, padded_accounts |-> <<>>, inner_instructions |-> <<>>,
     top_index |-> 0, group_pos |-> 1, inner_index |-> 0, items |-> 0,
     tops |-> <<>>, inners |-> <<>>, logs |-> <<>>,
     instruction_events |-> <<>>, inner_instruction_events |-> <<>>,
     log_events |-> <<>>, bot_wallet |-> <<>>]

\* a vector that all calls share: the one of the first task
AccountsOfTheFirstTask(frames, task) == frames[1].padded_accounts

\* `let mut accounts: Vec<Pubkey> = accounts.to_vec()`: the vector Pass B of a
\* task reads and pads is the copy its own call made
OwnAccounts(frames, task) == frames[task].padded_accounts

\* the frame after the metadata check and the account resolution
FrameBegun(frame) ==
    IF ~frame.tx.meta_present
    THEN [frame EXCEPT !.pc = "done", !.outcome = "Err"]
    ELSE IF ~frame.tx.err /\ (~frame.tx.inner_present \/ ~frame.tx.loaded_present)
    THEN [frame EXCEPT !.pc = "done", !.outcome = "panic"]
    ELSE [frame EXCEPT !.inner_instructions = LoadInnerInstructions(frame.tx),
                       !.accounts = ResolvedAccounts(frame.tx),
                       !.padded_accounts = IF frame.tx.decodable
                                           THEN ResolvedAccounts(frame.tx) ELSE <<>>,
                       !.pc = IF frame.tx.decodable THEN "passB" ELSE "passC"]

\* the frame after one top-level instruction, step being what it did
FrameAfterTop(frame, instruction, step) ==
    IF step.panic
    THEN [frame EXCEPT !.pc = "done", !.outcome = "panic",
                       !.tops = Append(@, instruction), !.items = @ + 1]
    ELSE [frame EXCEPT !.padded_accounts = step.accounts,
                       !.instruction_events = @ \o step.events,
                       !.tops = Append(@, instruction),
                       !.top_index = @ + 1, !.items = @ + 1]

\* the frame after one inner instruction
FrameAfterInner(frame, instruction, step) ==
    IF step.panic
    THEN [frame EXCEPT !.pc = "done", !.outcome = "panic",
                       !.inners = Append(@, [group |-> frame.group_pos,
                                             index |-> frame.inner_index,
                                             instruction |-> instruction]),
                       !.items = @ + 1]
    ELSE [frame EXCEPT !.instruction_events = @ \o step.instruction_events,
                       !.inner_instruction_events = @ \o step.inner_instruction_events,
                       !.inners = Append(@, [group |-> frame.group_pos,
                                             index |-> frame.inner_index,
                                             instruction |-> instruction]),
                       !.inner_index = @ + 1, !.items = @ + 1]

\* the frame after the merge phase and process_events: the call has returned
FrameReturned(frame, phase, wallet) ==
    [frame EXCEPT
        !.inner_instruction_events = @ \o frame.log_events,
        !.instruction_events =
            ProcessEvents([k \in 1..Len(phase) |-> phase[k].event], wallet,
                          [k \in 1..Len(phase) |-> 0]),
        !.bot_wallet = wallet,
        !.pc = "done", !.outcome = "Ok"]

\* the frames one step of a call leads to; vector is the account vector its
\* Pass B works on
FrameSteps(parser, seed, frame, vector) ==
    IF frame.pc = "call" THEN {FrameBegun(frame)}
    ELSE IF frame.pc = "passB"
    THEN { FrameAfterTop(frame, instruction,
               TopInstruction(parser, seed, instruction, frame.top_index,
                              HasProgram(parser, frame.accounts), vector,
                              frame.inner_instructions))
           : instruction \in IF frame.items < MaxTaskItems THEN TaskTopInstructions ELSE {} }
         \cup
         { [frame EXCEPT !.pc = "passC", !.padded_accounts = <<>>, !.top_index = 0]
           : end \in IF \A k \in 1..Len(frame.inner_instructions) :
                           frame.inner_instructions[k].index < frame.top_index
                     THEN {TRUE} ELSE {} }
    ELSE IF frame.pc = "passC"
    THEN IF frame.tx.err \/ frame.group_pos > Len(frame.inner_instructions)
         THEN {[frame EXCEPT !.pc = "passD", !.group_pos = 1, !.inner_index = 0]}
         ELSE { FrameAfterInner(frame, instruction,
                    InnerInstruction(parser, seed, instruction,
                                     frame.inner_instructions[frame.group_pos],
                                     frame.inner_index, frame.accounts))
                : instruction \in IF frame.items < MaxTaskItems
                                  THEN TaskInnerInstructions ELSE {} }
              \cup {[frame EXCEPT !.group_pos = @ + 1, !.inner_index = 0]}
    ELSE IF frame.pc = "passD"
    THEN { [frame EXCEPT !.log_events = @ \o ParseLogLine(parser, seed, log),
                         !.logs = Append(@, log), !.items = @ + 1]
           : log \in IF frame.items < MaxTaskItems THEN TaskLogLines ELSE {} }
         \cup
         { FrameReturned(frame,
               MergePhase(frame.instruction_events,
                          frame.inner_instruction_events \o frame.log_events),
               wallet)
           : wallet \in BotWallets }
    ELSE {}

InitCC ==
    /\ pc = "tasks"
    /\ hash_seed \in {0, 1}
    /\ decoder = "PumpFunEventParser"
    /\ args = NoCall
    /\ tx = NoTransaction
    /\ instruction_events = <<>>
    /\ outcome = "running"
    /\ accounts = <<>>
    /\ padded_accounts = <<>>
    /\ inner_instructions = <<>>
    /\ top_index = 0
    /\ last_top = NoTop
    /\ group_pos = 1
    /\ inner_index = 0
    /\ saw_malformed = FALSE
    /\ saw_foreign = FALSE
    /\ items = 0
    /\ inner_instruction_events = <<>>
    /\ log_events = <<>>
    /\ parsed_events = <<>>
    /\ merged = <<>>
    /\ twin = NoTwin
    /\ bot_wallet = <<>>
    /\ shared_decoder = DecoderOf(decoder)
    /\ \E first \in TaskTransactions, second \in TaskTransactions :
         /\ first # second
         /\ tasks = <<NewFrame(first), NewFrame(second)>>

\* one step of one of the two calls; the decoder is only read
TaskStep(task) ==
    /\ pc = "tasks"
    /\ \E next \in FrameSteps(shared_decoder, hash_seed, tasks[task],
                              OwnAccounts(tasks, task)) :
         tasks' = [tasks EXCEPT ![task] = next]
    /\ UNCHANGED <<pc, outcome, hash_seed, decoder, args, tx, accounts, padded_accounts,
                   inner_instructions, top_index, last_top, group_pos, inner_index,
                   saw_malformed, saw_foreign, items, instruction_events,
                   inner_instruction_events, log_events, parsed_events, merged,
                   twin, bot_wallet, shared_decoder>>

FirstTaskStep == TaskStep(1)

SecondTaskStep == TaskStep(2)

NextCC ==
    \/ FirstTaskStep
    \/ SecondTaskStep

SpecCC == InitCC /\ [][NextCC]_vars

(***************************************************************************)
(* Properties of parse_transaction.  merged[k] holds the positions of      *)
(* inner_instruction_events (the log events at its end) that the merge     *)
(* phase merged into the k-th instruction event; parsed_events[k] is that  *)
(* event as the passes left it, instruction_events[k] the event after.     *)
(***************************************************************************)
Reconciled == pc \in {"process", "done"}

InnerPositions == 1..Len(inner_instruction_events)

\* the fields the inner-instruction / log parser is the authority for
LogSourcedFields(e) ==
    [virtual_sol_reserves |-> e.virtual_sol_reserves, creator |-> e.creator]

\* an event without what the post-processor sets
Payload(e) ==
    [e EXCEPT !.is_dev_create_token_trade = FALSE, !.is_bot = FALSE,
              !.program_handle_time_consuming_ms = 0]

\* C1: every log event (index "log") whose id equals an instruction event's
\* id is merged into that event during the merge phase, however many such log
\* events there are and whether or not an inner-instruction event with the
\* same id is merged into it too.
C1_EveryMatchingLogEventMerged ==
    Reconciled =>
        \A k \in 1..Len(merged) : \A j \in InnerPositions :
            ( /\ inner_instruction_events[j].index = LogIndex
              /\ inner_instruction_events[j].id = parsed_events[k].id )
            => j \in merged[k]

\* C2: for a transaction whose error indicator is present the log pass and
\* the merge phase do not run: every returned event carries exactly the
\* payload the instruction parser produced in Pass B, whatever the log
\* messages contain.
C2_FailedTransactionKeepsPassBPayload ==
    (pc = "done" /\ outcome = "Ok" /\ tx.err) =>
        /\ Len(instruction_events) = Len(parsed_events)
        /\ \A k \in 1..Len(instruction_events) :
               /\ merged[k] = {}
               /\ Payload(instruction_events[k]) = Payload(parsed_events[k])

\* C3: for a transaction whose error indicator is present, the returned list
\* contains only events of top-level instructions (Pass B): no event created
\* in Pass C or in Pass D is an element of it.
C3_FailedTransactionReturnsOnlyPassB ==
    (pc = "done" /\ outcome = "Ok" /\ tx.err) =>
        \A k \in 1..Len(instruction_events) : instruction_events[k].origin.src = "B"

\* a failed transaction with a Pass B event and log events has been decoded
C3_Witness ==
    /\ pc = "done" /\ outcome = "Ok" /\ tx.err
    /\ Len(instruction_events) > 0
    /\ Len(log_events) > 0

\* E1 = parsed_events[k] is an event of top-level instruction T, E2 =
\* inner_instruction_events[j] one of an inner instruction T.I, of the same id
InnerOfSameParent(k, j) ==
    /\ parsed_events[k].origin.src = "B"
    /\ inner_instruction_events[j].origin.src = "I"
    /\ inner_instruction_events[j].origin.top = parsed_events[k].origin.top
    /\ inner_instruction_events[j].id = parsed_events[k].id

C5_MergeOnlyUnderTheThreeRelations ==
    Reconciled =>
        \A k \in 1..Len(merged) : \A j \in merged[k] :
            LET E1 == parsed_events[k]
                E2 == inner_instruction_events[j]
            IN  /\ E1.id = E2.id
                /\ \/ E2.origin.src = "D" /\ E2.index = LogIndex
                   \/ /\ E1.origin.src = "B"
                      /\ E2.origin.src = "I"
                      /\ E2.origin.top = E1.origin.top
                   \/ /\ E1.origin.src = "C"
                      /\ E2.origin.src = "I"
                      /\ E2.origin.top = E1.origin.top
                      /\ E2.origin.child > E1.origin.child

\* each of the three relations has merged something, and an inner event of
\* the same id under another parent was left alone
C5_Witness ==
    /\ pc = "done" /\ outcome = "Ok"
    /\ \E k \in 1..Len(merged) :
          /\ parsed_events[k].origin.src = "B"
          /\ merged[k] # {}
          /\ \E j \in InnerPositions \ merged[k] :
                /\ inner_instruction_events[j].id = parsed_events[k].id
                /\ inner_instruction_events[j].origin.src = "I"
                /\ inner_instruction_events[j].origin.top # parsed_events[k].origin.top

\* C6: for a successful transaction a malformed inner instruction (data that
\* is not base58, or a program id index outside the account vector)
\* contributes no event and does not abort decoding: parse_transaction
\* still returns the events of the other instructions.
C6_MalformedInnerInstructionDoesNotAbort ==
    (pc = "done" /\ saw_malformed) => outcome = "Ok"

\* C7: parse_transaction returns the error outcome, without running any
\* pass, when the metadata record is absent; when it is present it returns
\* an event list, never the error outcome.
C7_ErrorExactlyWhenMetadataAbsent ==
    pc = "done" =>
        IF tx.meta_present THEN outcome = "Ok"
        ELSE outcome = "Err" /\ instruction_events = <<>> /\ items = 0

\* C8: in Pass B, after the padding step for a handled top-level
\* instruction, every account index of the instruction is strictly less than
\* the length of the account vector handed to the instruction parser.
C8_EveryAccountIndexAddressable ==
    (pc = "passB" /\ last_top.handled) =>
        \A k \in 1..Len(last_top.accounts) : last_top.accounts[k] < Len(padded_accounts)

\* C9: in Pass B, when the largest account index of a handled top-level
\* instruction equals the length of the account vector, the padding step
\* appends exactly one zero-valued key.
C9_PaddingAppendsOneKeyAtTheLength ==
    ( /\ pc = "passB" /\ last_top.handled
      /\ MaxIndex(last_top.accounts) = last_top.len_before )
    => /\ Len(padded_accounts) = last_top.len_before + 1
       /\ padded_accounts[Len(padded_accounts)] = PubkeyDefault

(***************************************************************************)
(* Properties of process_events.                                           *)
(***************************************************************************)
\* a create event of a protocol whose creator/dev address is a
CreatedBy(e, a) ==
    \/ e.struct = "PumpFunCreateTokenEvent" /\ (e.user = a \/ e.creator = a)
    \/ e.struct = "BonkPoolCreateEvent" /\ e.creator = a

\* a trade of the same protocol as create event c, made by a
LaterTradeBy(e, c, a) ==
    \/ /\ c.struct = "PumpFunCreateTokenEvent"
       /\ e.struct = "PumpFunTradeEvent" /\ e.user = a
    \/ /\ c.struct = "BonkPoolCreateEvent"
       /\ e.struct = "BonkTradeEvent" /\ e.payer = a

\* C10: once the post-processor has seen a create event (PumpFun token
\* create or Bonk pool create) whose creator/dev address is A, every trade by
\* A later in the same list is flagged is_dev_create_token_trade, also when
\* creates by other addresses occur in between.
C10_LaterTradesOfACreatorFlagged ==
    (pc = "done" /\ outcome = "Ok") =>
        \A i \in 1..Len(instruction_events) : \A j \in 1..Len(instruction_events) :
            \A a \in {WalletA, WalletB} :
                ( /\ i < j
                  /\ CreatedBy(instruction_events[i], a)
                  /\ LaterTradeBy(instruction_events[j], instruction_events[i], a) )
                => instruction_events[j].is_dev_create_token_trade

(***************************************************************************)
(* Properties of process_events.                                           *)
(***************************************************************************)
IsTrade(e) == e.struct \in {"PumpFunTradeEvent", "BonkTradeEvent"}

\* the address that initiates a trade: a PumpFun trade's user, a Bonk trade's payer
Initiator(e) == IF e.struct = "BonkTradeEvent" THEN e.payer ELSE e.user

\* the initiator of the trade at position k is a creator/dev address of a
\* create event of the trade's protocol before position k
InitiatorInCreatorSet(events, k) ==
    \E i \in 1..(k - 1) :
        /\ CreatedBy(events[i], Initiator(events[k]))
        /\ LaterTradeBy(events[k], events[i], Initiator(events[k]))

\* C11: after process_events each PumpFun or Bonk trade has
\* is_dev_create_token_trade = true exactly when its initiator is in the
\* creator set of the create events before it; otherwise is_bot = true
\* exactly when the initiator is the caller's bot wallet; otherwise both
\* flags are false.
C11_FlagsFollowCreatorSetThenBotWallet ==
    (pc = "done" /\ outcome = "Ok") =>
        \A k \in 1..Len(instruction_events) :
            IsTrade(instruction_events[k]) =>
                LET e == instruction_events[k]
                    dev == InitiatorInCreatorSet(instruction_events, k)
                IN  /\ e.is_dev_create_token_trade = dev
                    /\ e.is_bot = (~dev /\ bot_wallet = <<Initiator(e)>>)

\* the flags of a list, in its order
Flags(events) ==
    [k \in 1..Len(events) |->
        [struct |-> events[k].struct, user |-> events[k].user, payer |-> events[k].payer,
         is_dev_create_token_trade |-> events[k].is_dev_create_token_trade,
         is_bot |-> events[k].is_bot]]

\* the events of a list with their latency blanked
Timeless(events) ==
    [k \in 1..Len(events) |-> [events[k] EXCEPT !.program_handle_time_consuming_ms = 0]]

\* C19: process_events applied, with the same bot wallet, to a list it
\* returned leaves every event's is_dev_create_token_trade and is_bot flags,
\* the order and the length of the list unchanged; only the latency may change.
C19_SecondPassChangesOnlyLatency ==
    pc = "again" =>
        /\ Len(instruction_events) = Len(parsed_events)
        /\ Flags(instruction_events) = Flags(parsed_events)
        /\ Timeless(instruction_events) = Timeless(parsed_events)

\* a second pass over a list with a creator's trade flagged as dev and another
\* trade flagged as the bot's, whose latency the second pass changed
C19_Witness ==
    /\ pc = "again"
    /\ \E k \in 1..Len(instruction_events) : instruction_events[k].is_dev_create_token_trade
    /\ \E k \in 1..Len(instruction_events) : instruction_events[k].is_bot
    /\ instruction_events # parsed_events

(***************************************************************************)
(* Properties of the list parse_transaction returns.                       *)
(***************************************************************************)
Returns == pc = "done" /\ outcome = "Ok"

\* C14: the returned list is deduplicated: it never holds two events with
\* the same id.
C14_NoTwoReturnedEventsShareAnId ==
    Returns =>
        \A k \in 1..Len(instruction_events) : \A l \in 1..Len(instruction_events) :
            k # l => instruction_events[k].id # instruction_events[l].id

\* the number of "." in a string
Dots(s) == Cardinality({k \in 1..Len(s) : s[k] = "."})

\* every character of a string is a decimal digit
AllDigits(s) == Len(s) > 0 /\ \A k \in 1..Len(s) : IsDigit(s[k])

\* C17: every returned event's index is "T" or "T.I": top-level events carry
\* "T" (decimal digits, no dot), inner-instruction events "T.I" (exactly one
\* dot between two decimal numbers); "log" occurs only in the intermediate
\* log list, never in the returned list.
C17_ReturnedIndexIsTopOrTopDotInner ==
    /\ \A k \in 1..Len(log_events) : log_events[k].index = LogIndex
    /\ Returns =>
         \A k \in 1..Len(instruction_events) :
             LET e == instruction_events[k]
             IN  /\ e.index # LogIndex
                 /\ e.origin.src \in {"B", "C"}
                 /\ e.origin.src = "B" =>
                        /\ Dots(e.index) = 0
                        /\ AllDigits(e.index)
                        /\ DecimalValue(e.index) = e.origin.top
                 /\ e.origin.src = "C" =>
                        /\ Dots(e.index) = 1
                        /\ AllDigits(SplitNth0(e.index))
                        /\ AllDigits(SplitNth1(e.index))
                        /\ DecimalValue(SplitNth0(e.index)) = e.origin.top
                        /\ DecimalValue(SplitNth1(e.index)) = e.origin.child

\* a returned list with a top-level event and an inner-instruction event, of a
\* transaction whose logs gave an event indexed "log"
C17_Witness ==
    /\ Returns
    /\ \E k \in 1..Len(instruction_events) : instruction_events[k].origin.src = "B"
    /\ \E k \in 1..Len(instruction_events) : instruction_events[k].origin.src = "C"
    /\ Len(log_events) > 0

\* event e comes no later than event f in the order of the passes: top-level
\* events by position, then inner-instruction events by group and by position
\* within the group
InPassOrder(e, f) ==
    \/ e.origin.src = "B" /\ f.origin.src = "C"
    \/ e.origin.src = "B" /\ f.origin.src = "B" /\ e.origin.top <= f.origin.top
    \/ /\ e.origin.src = "C" /\ f.origin.src = "C"
       /\ \/ e.origin.top < f.origin.top
          \/ e.origin.top = f.origin.top /\ e.origin.child <= f.origin.child

\* C18: the returned list is ordered: first the top-level events in
\* ascending instruction position, then the inner-instruction events in group
\* order and ascending position within each group; the merge phase and
\* process_events reorder nothing.
C18_ReturnedListInPassOrder ==
    /\ (pc = "process" \/ Returns) =>
         /\ Len(instruction_events) = Len(parsed_events)
         /\ \A k \in 1..Len(instruction_events) :
                instruction_events[k].index = parsed_events[k].index
    /\ Returns =>
         \A k \in 1..Len(instruction_events) : \A l \in 1..Len(instruction_events) :
             k < l => InPassOrder(instruction_events[k], instruction_events[l])

\* a returned list of two top-level events at different positions followed by
\* an inner-instruction event
C18_Witness ==
    /\ Returns
    /\ Len(instruction_events) >= 3
    /\ instruction_events[1].origin.src = "B"
    /\ instruction_events[2].origin.src = "B"
    /\ instruction_events[1].origin.top < instruction_events[2].origin.top
    /\ instruction_events[Len(instruction_events)].origin.src = "C"

(***************************************************************************)
(* Properties of Pass D and of the discriminator maps.                     *)
(***************************************************************************)
\* "0x" and the hex digits of the trailing 8 bytes of a discriminator key of
\* at least 8 bytes
TrailingEight(key) ==
    LET digits == StripHexPrefix(key)
    IN  <<"0", "x">> \o SubSeq(digits, Len(digits) - 15, Len(digits))

\* C12: in Pass D a log line yields an event for a configuration only if
\* its decoded bytes begin with the configuration's full inner-instruction
\* discriminator or with the trailing 8 bytes of it; whatever the length of a
\* registered discriminator, a line never matches on fewer bytes, in
\* particular never on an empty prefix.
C12_LogEventsMatchFullOrTrailingEightBytes ==
    \A k \in 1..Len(log_events) :
        LET key == FirstKeys(DecoderOf(decoder).configs,
                             "inner_instruction_discriminator")[log_events[k].origin.key]
            line == HexStr(log_events[k].origin.line)
        IN  \/ StartsWith(line, key)
            \/ /\ Len(StripHexPrefix(key)) >= 16
               /\ StartsWith(line, TrailingEight(key))

\* C13: decoding the same transaction twice with the same arguments, by the
\* same decoder or by two decoders built from the same configurations, yields
\* equal lists (length, order, ids, indices and payload fields; the handling
\* latency aside), whatever the iteration order of the discriminator maps.
C13_ListIndependentOfIterationOrder ==
    Returns => Timeless(twin.instruction_events) = Timeless(instruction_events)

\* C20: in a transaction that mixes instructions of the decoder's program
\* with instructions of other programs, every returned event stems from an
\* instruction whose program id index resolves to the decoder's program id;
\* top-level and inner instructions of other programs add no event, also
\* when their data begins with one of the decoder's instruction
\* discriminators.
C20_ReturnedEventsStemFromTheDecodersProgram ==
    /\ \A k \in 1..Len(instruction_events) :
           instruction_events[k].origin.src \in {"B", "C"} =>
               instruction_events[k].origin.program = DecoderOf(decoder).program_id
    /\ Returns =>
           \A k \in 1..Len(instruction_events) :
               instruction_events[k].origin.src \in {"B", "C"}

\* a returned list with an event, of a transaction in which an instruction of
\* another program carried one of the decoder's instruction discriminators
C20_Witness ==
    /\ Returns
    /\ saw_foreign
    /\ \E k \in 1..Len(instruction_events) : instruction_events[k].origin.src = "B"
    /\ \E k \in 1..Len(instruction_events) : instruction_events[k].origin.src = "C"

(***************************************************************************)
(* Properties of the PumpFun instruction parsers.                          *)
(***************************************************************************)
CallReturned(which) == pc = "done" /\ args.parser = which

\* C15: every event the buy-instruction parser produces from a buy whose
\* payload has at least 16 bytes and which has at least 11 accounts has
\* is_buy = true, amount and max_sol_cost equal to the two little-endian u64
\* of the payload, mint equal to account 2 and user equal to account 6,
\* whichever "Program data:" lines the transaction's logs carry.
C15_BuyEventCarriesTheInstructionsValues ==
    ( /\ CallReturned("buy")
      /\ Len(args.data) >= 16
      /\ Len(args.accounts) >= 11
      /\ Len(instruction_events) = 1 ) =>
        LET e == instruction_events[1]
        IN  /\ e.is_buy
            /\ e.amount = FromLeBytes(SubSeq(args.data, 1, 8))
            /\ e.max_sol_cost = FromLeBytes(SubSeq(args.data, 9, 16))
            /\ e.mint = args.accounts[3]
            /\ e.user = args.accounts[7]

\* the little-endian u32 at a 0-based offset of data, -1 when the data ends
\* before its four bytes
LengthAt(data, offset) ==
    IF offset + 4 > Len(data) THEN -1
    ELSE data[offset + 1] + 256 * data[offset + 2]

\* a create payload whose declared name, symbol or uri length runs past the
\* end of the data, or that ends before one of the three length prefixes
RunsPastTheEnd(data) ==
    LET name_len == LengthAt(data, 0)
        symbol_at == 4 + name_len
        symbol_len == LengthAt(data, symbol_at)
        uri_at == symbol_at + 4 + symbol_len
        uri_len == LengthAt(data, uri_at)
    IN  \/ name_len < 0
        \/ symbol_at > Len(data)
        \/ symbol_len < 0
        \/ uri_at > Len(data)
        \/ uri_len < 0
        \/ uri_at + 4 + uri_len > Len(data)

\* C16: the create-token instruction parser is total on malformed bytes: for
\* every payload whose declared name, symbol or uri length runs past the end
\* of the data, or that is too short for the three length prefixes, it
\* returns no event and never aborts.
C16_CreateParserReturnsNothingOnMalformedBytes ==
    (CallReturned("create") /\ RunsPastTheEnd(args.data)) =>
        /\ outcome = "Ok"
        /\ instruction_events = <<>>

(***************************************************************************)
(* Properties of the account vector.                                       *)
(***************************************************************************)
\* the call is past the account resolution and has not ended
Resolved == pc \in {"passB", "passC", "passD", "process"}

\* C21: the account vector against which instruction account indices are
\* resolved is, for a successful transaction, the static account keys, then
\* the writable loaded addresses, then the readonly ones; for a failed
\* transaction it is the static account keys alone, and the account
\* resolution of a failed transaction that lacks loaded addresses does not
\* abort the call.  Pass B's own vector starts with it.
C21_VectorIsStaticThenWritableThenReadonly ==
    /\ (Resolved /\ tx.decodable) =>
          /\ accounts = IF tx.err THEN tx.static_account_keys
                        ELSE tx.static_account_keys \o tx.loaded_addresses.writable
                                 \o tx.loaded_addresses.readonly
          /\ pc = "passB" => StartsWith(padded_accounts, accounts)
    /\ (tx.meta_present /\ tx.err /\ pc # "call") =>
          (outcome = "panic" => items > 0)

\* an inner instruction of a successful transaction with a writable and a
\* readonly loaded address has given an event
C21_Witness ==
    /\ pc = "passC" /\ ~tx.err /\ tx.decodable
    /\ tx.loaded_addresses.writable # <<>>
    /\ tx.loaded_addresses.readonly # <<>>
    /\ Len(accounts) = Len(tx.static_account_keys) + 2
    /\ \E k \in 1..Len(instruction_events) : instruction_events[k].origin.src = "C"

(***************************************************************************)
(* Properties of the functions that walk the discriminator maps.           *)
(***************************************************************************)
WalkReturned(which) == pc = "done" /\ outcome = "Ok" /\ args.call = which

\* the event a configuration's instruction parser gives for the instruction
\* of the call, <<>> when it gives none or the configuration does not match
InstructionEventOf(config) ==
    IF /\ ResolvedProgram(args.item.program_id_index, args.accounts) = PUMPFUN_PROGRAM_ID
       /\ StartsWith(args.item.data, config.instruction_discriminator)
       /\ ValidateAccountIndices(args.item.accounts, Len(args.accounts))
    THEN InstructionParser(config.parser,
             SliceFrom(args.item.data, Len(config.instruction_discriminator)),
             ResolveAccounts(args.item.accounts, args.accounts),
             EventMetadata(config.event_type, WalkPlace.index, WalkPlace.origin)).events
    ELSE <<>>

\* the same for the inner-instruction parser and the inner instruction of the call
InnerEventOf(config) ==
    IF /\ Len(args.item.data.bytes) >= 16
       /\ StartsWith(HexStr(args.item.data.bytes), config.inner_instruction_discriminator)
    THEN InnerInstructionParser(config.parser, SliceFrom(args.item.data.bytes, 16),
             EventMetadata(config.event_type, WalkPlace.index, WalkPlace.origin))
    ELSE <<>>

\* the positions of the configurations that give an event
Giving(configs, given) == {k \in 1..Len(configs) : given[k] # <<>>}

\* a list holds exactly one event per giving configuration, that event
HoldsEveryEvent(events, configs, given) ==
    /\ Len(events) = Cardinality(Giving(configs, given))
    /\ \A k \in Giving(configs, given) : \E j \in 1..Len(events) : events[j] = given[k][1]

\* C22: GenericEventParser::new files every configuration under its
\* inner-instruction discriminator and under its instruction discriminator,
\* dropping and overwriting none when configurations share a discriminator;
\* when an instruction of the decoder's program (whose account indices are
\* in range) or an inner instruction matches a discriminator, the parser of
\* every configuration filed under it runs and every event a parser gives is
\* in the returned list.
C22_EveryConfigurationFiledAndRun ==
    LET parser == DecoderOf(decoder)
        configs == parser.configs
    IN  /\ \A k \in 1..Len(configs) :
              /\ Contains(parser.inner_instruction_configs[
                              configs[k].inner_instruction_discriminator], configs[k])
              /\ Contains(parser.instruction_configs[
                              configs[k].instruction_discriminator], configs[k])
        /\ WalkReturned("instruction") =>
              HoldsEveryEvent(instruction_events, configs,
                              [k \in 1..Len(configs) |-> InstructionEventOf(configs[k])])
        /\ WalkReturned("inner_instruction") =>
              HoldsEveryEvent(instruction_events, configs,
                              [k \in 1..Len(configs) |-> InnerEventOf(configs[k])])

\* a call on a decoder with two configurations under one discriminator has
\* returned the events of both
C22_Witness ==
    /\ pc = "done" /\ outcome = "Ok"
    /\ decoder = "CollidingParser"
    /\ args.call = "instruction"
    /\ Len(instruction_events) = 2
    /\ instruction_events[1].event_type # instruction_events[2].event_type

\* every inner-instruction discriminator of the decoder has 16 bytes
SixteenByteKeys(parser) ==
    \A k \in 1..Len(parser.configs) :
        Len(StripHexPrefix(parser.configs[k].inner_instruction_discriminator)) = 32

\* the event a configuration's inner-instruction parser gives for the log
\* line of the call when it is handed the bytes after the first 16 of a line
\* that begins with the configuration's discriminator, and the bytes after the
\* first 8 of a line that begins only with the trailing 8 bytes of it
LogEventOf(config) ==
    LET bytes == args.item.rest.bytes
        key == config.inner_instruction_discriminator
        metadata == EventMetadata(config.event_type, LogIndex,
                                  LogPlace(DecoderOf(decoder), key, bytes).origin)
    IN  IF \/ args.item.prefix # "Program data: "
           \/ ~args.item.rest.valid
           \/ Len(bytes) < 16
        THEN <<>>
        ELSE IF StartsWith(HexStr(bytes), key)
        THEN InnerInstructionParser(config.parser, SliceFrom(bytes, 16), metadata)
        ELSE IF StartsWith(HexStr(bytes), TrailingEight(key))
        THEN InnerInstructionParser(config.parser, SliceFrom(bytes, 8), metadata)
        ELSE <<>>

\* C23: in Pass D, when a decoded log payload begins with a configuration's
\* full 16-byte discriminator its parser receives the bytes after the first
\* 16; when it begins only with the trailing 8 bytes of the discriminator the
\* parser receives the bytes after the first 8; one configuration gives at
\* most one event for one log line.
C23_SixteenSkippedOnFullMatchEightOnTrailing ==
    (WalkReturned("logs") /\ SixteenByteKeys(DecoderOf(decoder))) =>
        LET configs == DecoderOf(decoder).configs
        IN  /\ HoldsEveryEvent(instruction_events, configs,
                               [k \in 1..Len(configs) |-> LogEventOf(configs[k])])
            /\ \A k \in 1..Len(configs) :
                   Cardinality({j \in 1..Len(instruction_events) :
                                   instruction_events[j].event_type = configs[k].event_type})
                       <= 1

\* a line that begins with the trailing 8 bytes of the trade discriminator
\* and not with the whole of it has given the events of the two
\* configurations filed under it
C23_Witness ==
    /\ WalkReturned("logs")
    /\ decoder = "PumpFunEventParser"
    /\ ~StartsWith(HexStr(args.item.rest.bytes), TRADE_EVENT)
    /\ StartsWith(HexStr(args.item.rest.bytes), TrailingEight(TRADE_EVENT))
    /\ Len(instruction_events) = 2
    /\ instruction_events[1].virtual_sol_reserves = 9

\* C25: data shorter than 16 bytes yields no event on the inner/log path:
\* parse_events_from_inner_instruction returns the empty list when the
\* base58-decoded data has fewer than 16 bytes, and Pass D produces no event
\* from a "Program data: " line whose base64-decoded payload has fewer than 16
\* bytes.
C25_ShortDataYieldsNoEvent ==
    /\ ( /\ pc = "done" /\ args.call = "inner_instruction"
         /\ args.item.data.valid
         /\ Len(args.item.data.bytes) < 16 )
       => outcome = "Ok" /\ instruction_events = <<>>
    /\ ( /\ pc = "done" /\ args.call = "logs"
         /\ args.item.prefix = "Program data: "
         /\ args.item.rest.valid
         /\ Len(args.item.rest.bytes) < 16 )
       => outcome = "Ok" /\ instruction_events = <<>>

\* the call on an inner instruction whose 12 bytes of data begin with a
\* discriminator of the decoder has returned
C25_Witness ==
    /\ WalkReturned("inner_instruction")
    /\ Len(args.item.data.bytes) = 12
    /\ \E k \in 1..Len(DecoderOf(decoder).configs) :
          DiscriminatorMatches(HexStr(args.item.data.bytes),
              DecoderOf(decoder).configs[k].inner_instruction_discriminator)

(***************************************************************************)
(* Properties of concurrent calls.  A call run alone is the same passes    *)
(* applied in sequence to what the call read.                              *)
(***************************************************************************)
RECURSIVE PassBAlone(_, _, _, _, _, _, _)
RECURSIVE PassBAfter(_, _, _, _, _, _, _)
\* Pass B over the top-level instructions tops, from position index on
PassBAlone(parser, seed, tops, index, has_program, vector, groups) ==
    IF Len(tops) = 0 THEN Returned(<<>>)
    ELSE PassBAfter(parser, seed, tops, index, has_program, groups,
                    TopInstruction(parser, seed, tops[1], index, has_program, vector, groups))

PassBAfter(parser, seed, tops, index, has_program, groups, step) ==
    IF step.panic THEN Panicked
    ELSE Then(Returned(step.events),
              PassBAlone(parser, seed, Tail(tops), index + 1, has_program,
                         step.accounts, groups))

\* the two lists of Pass C joined, or the panic
BothLists(step, rest) ==
    IF step.panic \/ rest.panic
    THEN [panic |-> TRUE, instruction_events |-> <<>>, inner_instruction_events |-> <<>>]
    ELSE [panic |-> FALSE,
          instruction_events |-> step.instruction_events \o rest.instruction_events,
          inner_instruction_events |->
              step.inner_instruction_events \o rest.inner_instruction_events]

RECURSIVE PassCAlone(_, _, _, _, _)
\* Pass C over the inner instructions read, each with its group and position
PassCAlone(parser, seed, inners, groups, vector) ==
    IF Len(inners) = 0
    THEN [panic |-> FALSE, instruction_events |-> <<>>, inner_instruction_events |-> <<>>]
    ELSE BothLists(InnerInstruction(parser, seed, inners[1].instruction,
                                    groups[inners[1].group], inners[1].index, vector),
                   PassCAlone(parser, seed, Tail(inners), groups, vector))

RECURSIVE PassDAlone(_, _, _)
PassDAlone(parser, seed, logs) ==
    IF Len(logs) = 0 THEN <<>>
    ELSE ParseLogLine(parser, seed, logs[1]) \o PassDAlone(parser, seed, Tail(logs))

\* the list the call returns once the passes have given their lists
ReturnedAlone(top_evs, inner_lists, log_evs, wallet) ==
    IF top_evs.panic \/ inner_lists.panic THEN Panicked
    ELSE Returned(ProcessEvents(
             [k \in 1..(Len(top_evs.events) + Len(inner_lists.instruction_events)) |->
                 MergePhase(top_evs.events \o inner_lists.instruction_events,
                            inner_lists.inner_instruction_events \o log_evs)[k].event],
             wallet,
             [k \in 1..(Len(top_evs.events) + Len(inner_lists.instruction_events)) |-> 0]))

\* parse_transaction run alone by a decoder on the transaction, instructions
\* and log lines a frame records
RunAlone(parser, seed, frame) ==
    ReturnedAlone(
        PassBAlone(parser, seed, frame.tops, 0,
                   HasProgram(parser, ResolvedAccounts(frame.tx)),
                   ResolvedAccounts(frame.tx), LoadInnerInstructions(frame.tx)),
        PassCAlone(parser, seed, frame.inners, LoadInnerInstructions(frame.tx),
                   ResolvedAccounts(frame.tx)),
        PassDAlone(parser, seed, frame.logs),
        frame.bot_wallet)

\* C24: two parse_transaction calls on the same decoder value, running
\* concurrently on different transactions under any interleaving, each return
\* the event list the call returns when run alone; decoding never modifies
\* the decoder's registries, protocol tag or program id.
C24_ConcurrentCallsReturnWhatTheyReturnAlone ==
    pc = "tasks" =>
        /\ shared_decoder = GenericEventParserNew(PUMPFUN_PROGRAM_ID, "PumpFun", Configs)
        /\ \A task \in Tasks :
               tasks[task].pc = "done" =>
                   /\ tasks[task].outcome = "Ok"
                   /\ tasks[task].instruction_events =
                          RunAlone(DecoderOf(decoder), hash_seed, tasks[task]).events

\* both calls, on different transactions, have read two top-level
\* instructions and returned two events each
C24_Witness ==
    /\ pc = "tasks"
    /\ \A task \in Tasks :
          /\ tasks[task].pc = "done"
          /\ Len(tasks[task].tops) = 2
          /\ Len(tasks[task].instruction_events) = 2
    /\ tasks[1].tx # tasks[2].tx

(***************************************************************************)
(* Properties of the merge phase and of the returned list.                 *)
(***************************************************************************)
\* E2 is no log event, has E1's id and stands to E1 as rule 2 (E1 of top-level
\* instruction T, E2 of inner instruction T.I) or rule 3 (E1 of T.I, E2 of T.J,
\* J > I) requires
Absorbable(E1, E2) ==
    /\ E2.index # LogIndex
    /\ E2.origin.src = "I"
    /\ E2.id = E1.id
    /\ E2.origin.top = E1.origin.top
    /\ \/ E1.origin.src = "B"
       \/ E1.origin.src = "C" /\ E2.origin.child > E1.origin.child

\* C26: in the merge phase each instruction event E1 absorbs at most one
\* inner event that is no log event: the first one, in the order of the inner
\* list, whose id equals E1's and that satisfies rule 2 or rule 3; the scan
\* for E1 stops there, and an inner event of the same id under another parent
\* does not stop it.
C26_AtMostOneInnerEventAbsorbedTheFirst ==
    Reconciled =>
        \A k \in 1..Len(merged) :
            LET fits == {j \in InnerPositions :
                            Absorbable(parsed_events[k], inner_instruction_events[j])}
                absorbed == {j \in merged[k] :
                                inner_instruction_events[j].index # LogIndex}
            IN  /\ Cardinality(absorbed) <= 1
                /\ fits = {} => absorbed = {}
                /\ fits # {} =>
                      /\ \E j \in fits :
                            /\ \A i \in fits : j <= i
                            /\ absorbed = {j}
                            /\ \A i \in merged[k] : i <= j

\* an instruction event absorbed the second of three inner events of its id:
\* the first is under another parent, the third under its own
C26_Witness ==
    /\ Returns
    /\ \E k \in 1..Len(merged) : \E h \in InnerPositions, i \in InnerPositions,
                                    j \in InnerPositions :
          /\ h < i /\ i < j
          /\ inner_instruction_events[h].id = parsed_events[k].id
          /\ inner_instruction_events[h].origin.src = "I"
          /\ inner_instruction_events[h].origin.top # parsed_events[k].origin.top
          /\ Absorbable(parsed_events[k], inner_instruction_events[i])
          /\ Absorbable(parsed_events[k], inner_instruction_events[j])
          /\ merged[k] = {i}

(***************************************************************************)
(* Properties of the order of the post-processor's pass.                   *)
(***************************************************************************)
\* a create event of the protocol of trade e
CreateOfProtocol(c, e) ==
    \/ c.struct = "PumpFunCreateTokenEvent" /\ e.struct = "PumpFunTradeEvent"
    \/ c.struct = "BonkPoolCreateEvent" /\ e.struct = "BonkTradeEvent"

\* the list process_events was handed: the returned events without what the
\* post-processor sets (the caller's events carry no flag and no latency)
Handed(events) == [k \in 1..Len(events) |-> Payload(events[k])]

\* C27: the post-processor is a single forward pass: the flags of a trade
\* depend only on the events that precede it in the list, so a trade with no
\* create event of its protocol before it is not flagged
\* is_dev_create_token_trade, also when the create event naming its initiator
\* follows it, while a trade is flagged when the create event of its protocol
\* last before it names its initiator.
C27_FlagsDependOnPrecedingCreatesOnly ==
    (pc = "done" /\ outcome = "Ok") =>
        \A k \in 1..Len(instruction_events) :
            LET e == instruction_events[k]
            IN  /\ Flags(<<e>>) =
                       Flags(<<ProcessEvents(SubSeq(Handed(instruction_events), 1, k),
                                             bot_wallet, [i \in 1..k |-> 0])[k]>>)
                /\ IsTrade(e) =>
                      /\ (\A i \in 1..(k - 1) : ~CreateOfProtocol(instruction_events[i], e))
                            => ~e.is_dev_create_token_trade
                      /\ \A i \in 1..(k - 1) :
                            ( /\ CreatedBy(instruction_events[i], Initiator(e))
                              /\ LaterTradeBy(e, instruction_events[i], Initiator(e))
                              /\ \A h \in (i + 1)..(k - 1) :
                                    ~CreateOfProtocol(instruction_events[h], e) )
                            => e.is_dev_create_token_trade

\* a trade before the create event naming its initiator was left unflagged
\* and the same trade after that create event was flagged
C27_Witness ==
    /\ pc = "done" /\ outcome = "Ok"
    /\ Len(instruction_events) = 3
    /\ IsTrade(instruction_events[1])
    /\ CreatedBy(instruction_events[2], Initiator(instruction_events[1]))
    /\ LaterTradeBy(instruction_events[3], instruction_events[2],
                    Initiator(instruction_events[1]))
    /\ Payload(instruction_events[3]) = Payload(instruction_events[1])
    /\ ~instruction_events[1].is_dev_create_token_trade
    /\ instruction_events[3].is_dev_create_token_trade

\* C28: the list parse_transaction returns has exactly one element per
\* event the instruction parser returned in Pass B and Pass C, in their
\* order: the merge phase and the post-processor add and remove no element,
\* and an inner-instruction or log event that matches no instruction event is
\* not emitted.
C28_OneElementPerInstructionParserEvent ==
    /\ (pc \in {"passB", "passC", "passD"}) =>
          \A k \in 1..Len(instruction_events) :
              instruction_events[k].origin.src \in {"B", "C"}
    /\ (pc = "process" \/ Returns) =>
          /\ Len(instruction_events) = Len(parsed_events)
          /\ \A k \in 1..Len(instruction_events) :
                /\ instruction_events[k].origin = parsed_events[k].origin
                /\ instruction_events[k].origin.src \in {"B", "C"}
                /\ instruction_events[k].id = parsed_events[k].id
          /\ \A j \in InnerPositions :
                inner_instruction_events[j].origin.src \in {"I", "D"}

\* a returned list with an event, of a transaction with an inner-instruction
\* event and a log event whose ids no instruction event has
C28_Witness ==
    /\ Returns
    /\ Len(instruction_events) > 0
    /\ \E j \in InnerPositions :
          /\ inner_instruction_events[j].origin.src = "I"
          /\ \A k \in 1..Len(instruction_events) :
                instruction_events[k].id # inner_instruction_events[j].id
    /\ \E j \in InnerPositions :
          /\ inner_instruction_events[j].origin.src = "D"
          /\ \A k \in 1..Len(instruction_events) :
                instruction_events[k].id # inner_instruction_events[j].id

\* C29: after process_events has run on events whose is_bot and
\* is_dev_create_token_trade flags are both false, no PumpFun or Bonk trade
\* has both flags true, in whatever order the events come and whatever the bot
\* wallet is, a creator's address included.
C29_NoTradeIsBothDevAndBot ==
    (pc = "done" /\ outcome = "Ok") =>
        \A k \in 1..Len(instruction_events) :
            IsTrade(instruction_events[k]) =>
                ~( /\ instruction_events[k].is_dev_create_token_trade
                   /\ instruction_events[k].is_bot )

\* the bot wallet is the address of a creator: its trade before the create
\* event was flagged as the bot's, its trade after it as the creator's
C29_Witness ==
    /\ pc = "done" /\ outcome = "Ok"
    /\ Len(instruction_events) = 3
    /\ IsTrade(instruction_events[1]) /\ IsTrade(instruction_events[3])
    /\ bot_wallet = <<Initiator(instruction_events[1])>>
    /\ bot_wallet = <<Initiator(instruction_events[3])>>
    /\ CreatedBy(instruction_events[2], bot_wallet[1])
    /\ instruction_events[1].is_bot
    /\ instruction_events[3].is_dev_create_token_trade
    /\ ~instruction_events[3].is_bot

(***************************************************************************)
(* The padded copy of the account vector.                                  *)
(***************************************************************************)
\* C30: the zero padding of the account vector is local to Pass B.  In
\* Pass B the vector is the resolved vector followed by zero keys only, after
\* each top-level instruction it is the vector the instruction found, padded
\* for that instruction if it was handled (so a padding stays for the later
\* instructions), and a padded vector is never longer than 255.  Pass C
\* resolves and attributes transfers against the resolved vector: every
\* event of an inner instruction has its transfers looked up in a vector of
\* the resolved vector's length.
C30_PaddingIsLocalToPassB ==
    /\ pc = "passB" =>
          /\ Len(padded_accounts) >= Len(accounts)
          /\ SubSeq(padded_accounts, 1, Len(accounts)) = accounts
          /\ \A k \in (Len(accounts) + 1)..Len(padded_accounts) :
                 padded_accounts[k] = PubkeyDefault
          /\ (Len(padded_accounts) > Len(accounts)) => Len(padded_accounts) <= 255
          /\ (top_index > 0) =>
                 Len(padded_accounts) =
                     IF /\ last_top.handled
                        /\ MaxIndex(last_top.accounts) > last_top.len_before
                     THEN MaxIndex(last_top.accounts)
                     ELSE last_top.len_before
    /\ pc \in {"passC", "passD"} =>
          /\ \A k \in 1..Len(instruction_events) :
                 instruction_events[k].origin.src = "C" =>
                     instruction_events[k].transfer_accounts = Len(accounts)
          /\ \A k \in 1..Len(inner_instruction_events) :
                 inner_instruction_events[k].transfer_accounts = Len(accounts)

\* after a top-level buy with account index 255, a later top-level buy had
\* its transfers looked up in the vector of 255 keys, and an inner instruction
\* of the same transaction in the resolved vector
C30_Witness ==
    /\ pc = "passD"
    /\ Len(accounts) < 255
    /\ \E k \in 1..Len(instruction_events) :
           /\ instruction_events[k].origin.src = "B"
           /\ instruction_events[k].transfer_accounts = 255
    /\ \E k \in 1..Len(instruction_events) :
           /\ instruction_events[k].origin.src = "C"
           /\ instruction_events[k].transfer_accounts = Len(accounts)

=============================================================================
